---- MODULE Spec2Model ----
(***************************************************************************)
(* Run-orchestration core of the study manager                             *)
(* (python/code_saturne/studymanager/cs_studymanager_study.py):            *)
(* the dependency graph of cases (class dependency_graph), the staging of  *)
(* the run folders (Studies.create_studies) and the submission of the      *)
(* cases as SLURM batches (Studies.run_slurm_batches).                     *)
(*                                                                         *)
(* A case is identified by its position in the list of cases read from the *)
(* parameter file; Python's None is NoKey / NoNode / NoLevel / NoJob.      *)
(***************************************************************************)
EXTENDS Integers, Sequences, FiniteSets, TLC

\* ------------------------------------------------------------------------
\* Bounds of the model
\* ------------------------------------------------------------------------

\* number of cases of the parameter file, general scheduling runs (Spec)
MaxCases == 3
\* number of cases of the runs with all cases on one process count (SpecDup)
DupCases == 4
\* number of cases of the packing runs (SpecPack)
PackCases == 4
\* number of cases of the graph construction runs (SpecGraph)
GraphCases == 3
\* largest n_procs of a case
MaxProc == 2
\* largest expected_time of a case (minutes), packing runs
MaxTime == 4
\* largest wall time budget of a batch (minutes), packing runs
MaxWTime == 7
\* largest number of cases per batch
MaxSize == 3
\* largest number of studies
MaxStudy == 2
\* largest number of direct calls on a built graph
MaxCalls == 2
\* number of cases, construction of the cases (SpecConstruct)
ConsCases == 2
\* number of cases, direct runs (SpecRun)
RunCases == 3
\* largest exit code of a run command
MaxExit == 3
\* number of cases, staging runs (SpecStage)
StageCases == 2
\* largest number of sub domains of a coupled case
MaxSub == 2
\* return codes of a staging command: -MaxRet..MaxRet
MaxRet == 2
\* largest number of cases, runs of check_slurm_batches (SpecTune)
TuneCases == 52
\* largest number of cases of these runs that are not short
TuneLong == 3
\* largest number of hours of an expected_time of run.cfg
MaxHours == 12
\* largest number of cases of the dispatch runs
DispCases == 3
\* largest number of cases of the runs of check_compare
CmpCases == 2
\* largest number of cases of the runs with the --rm option
RmCases == 3

\* ------------------------------------------------------------------------
\* Encoding of None
\* ------------------------------------------------------------------------

NoKey   == 0
NoNode  == 0
NoJob   == 0
NoLevel == -1
NoValue == 0

VARIABLES
    cases,              \* Study.cases: the Case objects, in file order (static attributes)
    n_study,            \* Studies.n_study
    smgr_cmd,           \* command selection (compute, compare, post, sheet, state)
    slurm_batch_size,   \* Studies.__slurm_batch_size
    slurm_batch_wtime,  \* Studies.__slurm_batch_wtime (minutes)
    stage,              \* input: sub domains or not, return codes of the staging
                        \* commands, run_status.prepared and run_case.log in
                        \* run_dir or not
    sbatch_fail,        \* input: rank of the sbatch call that fails (0: none)
    compute,            \* Case.compute
    compare,            \* Case.compare
    plot,               \* Case.plot
    is_compiled,        \* Case.is_compiled
    level,              \* Case.level
    job_id,             \* Case.job_id
    global_graph,       \* dump_graph: local global_graph
    next_case,          \* dump_graph: number of cases already visited
    msg,                \* dump_graph: last value returned by add_node
    graph,              \* Studies.graph
    pc,                 \* position of the controller
    error,              \* exception that ended the run ("" if none)
    loop_level,         \* run_slurm_batches: level
    nproc,              \* run_slurm_batches: nproc
    todo,               \* run_slurm_batches: cases of the sub graph still to visit
    batch_cmd,          \* run_slurm_batches: batch_cmd
    cur_batch_size,     \* run_slurm_batches: cur_batch_size
    batch_total_time,   \* run_slurm_batches: batch_total_time
    dep_job_id_list,    \* run_slurm_batches: dep_job_id_list
    cases_list,         \* run_slurm_batches: cases_list
    cur_batch_id,       \* run_slurm_batches: cur_batch_id
    tot_job_id_list,    \* run_slurm_batches: tot_job_id_list
    submitted,          \* the sbatch calls accepted so far, in order
    filter_level,       \* Studies.__filter_level (NoLevel: None)
    filter_n_procs,     \* Studies.__filter_n_procs (0: None)
    slurm_batch,        \* Studies.__slurm_batch: batch mode instead of direct runs
    mem_log,            \* Studies.__mem_log
    force_rm,           \* Studies.__force_rm (option --rm)
    parametric,         \* Case.parametric: the words of the parametric arguments
    compare_nodes,      \* input: run_id of each case, its compare markups and
                        \* its RESU directories in repository and destination
    exit_code,          \* input: exit code of the run command of each case
    inferred,           \* input: dependency key read from the restart path of
                        \* DATA/setup.xml
    dep_dir,            \* input: state of the run folder of the inferred dependency
    opt_n_procs,        \* n_procs of the command line, given to Study (0: None)
    resource_config,    \* resource_config given to the cases
    run_conf,           \* input: DATA/run.cfg of each case (NoConf: no file)
    no_restart,         \* Case.no_restart
    built,              \* number of Case objects already constructed
    ran,                \* Studies.run: cases run so far, in order
    log,                \* lines given to Studies.reporting about the cases
    dest_resu,          \* the run folders of the destination, by composite key:
                        \* their state, "absent" when there is none
    sub_graph,          \* last graph returned by extract_sub_graph (direct calls)
    ret,                \* last value returned by a direct call on the graph
    api_calls           \* number of direct calls on the graph so far

config_vars == <<cases, n_study, smgr_cmd, slurm_batch_wtime, stage, sbatch_fail,
                 filter_level, filter_n_procs, slurm_batch, mem_log, force_rm, parametric,
                   compare_nodes, exit_code,
                 inferred, dep_dir, opt_n_procs, resource_config, run_conf>>
ext_vars    == <<no_restart, built, ran, log, dest_resu, sub_graph, ret, api_calls>>
case_vars   == <<compute, compare, plot, is_compiled, level, job_id>>
dump_vars   == <<global_graph, next_case, msg>>
batch_vars  == <<batch_cmd, cur_batch_size, batch_total_time, dep_job_id_list, cases_list>>
loop_vars   == <<loop_level, nproc, todo>>
slurm_vars  == <<cur_batch_id, tot_job_id_list, submitted>>

vars == <<cases, n_study, smgr_cmd, slurm_batch_size, slurm_batch_wtime,
          stage, sbatch_fail,
          compute, compare, plot, is_compiled, level, job_id,
          global_graph, next_case, msg, graph, pc, error,
          loop_level, nproc, todo,
          batch_cmd, cur_batch_size, batch_total_time, dep_job_id_list,
          cases_list, cur_batch_id, tot_job_id_list, submitted,
          filter_level, filter_n_procs, slurm_batch, mem_log, force_rm, parametric,
                   compare_nodes, exit_code,
          inferred, dep_dir, opt_n_procs, resource_config, run_conf,
          no_restart, built, ran, log, dest_resu, sub_graph, ret, api_calls>>

\* ------------------------------------------------------------------------
\* Helpers
\* ------------------------------------------------------------------------

Ids == 1..Len(cases)

InSeq(x, s) == \E i \in 1..Len(s) : s[i] = x

SeqSet(s) == {s[i] : i \in 1..Len(s)}

Max2(a, b) == IF a >= b THEN a ELSE b

Min2(a, b) == IF a <= b THEN a ELSE b

\* an exception ends the run where it is raised
Crash(e) ==
    /\ pc' = pc
    /\ error' = e

\* ------------------------------------------------------------------------
\* class dependency_graph
\* ------------------------------------------------------------------------

\* dependency_graph.__init__ : graph_dict is the insertion ordered list
\* nodes together with the value dep[node] stored for each key.
NewGraph ==
    [nodes |-> <<>>, dep |-> [c \in Ids |-> NoNode], max_level |-> 0, max_proc |-> 0]

\* add_dependency that overwrites the dependency already recorded
add_dependency_m(g, node1, node2) ==
    [g |-> [g EXCEPT !.dep[node1] = node2], msg |-> FALSE]

\* dependency_graph.add_dependency((node1, node2)): returns the graph and
\* whether an error message is returned.
add_dependency(g, node1, node2) ==
    IF g.dep[node1] = NoNode
    THEN [g |-> [g EXCEPT !.dep[node1] = node2], msg |-> FALSE]
    ELSE [g |-> g, msg |-> TRUE]

\* the scan of the nodes that misses the first node
FirstMatch_m(nodes, k) ==
    IF \E i \in 2..Len(nodes) : cases[nodes[i]].key = k
    THEN nodes[CHOOSE i \in 2..Len(nodes) :
                 /\ cases[nodes[i]].key = k
                 /\ \A j \in 2..(i-1) : cases[nodes[j]].key # k]
    ELSE NoNode

\* first node of the graph, in insertion order, whose composite key
\* study/label/resu/run_id equals k (NoNode if there is none)
FirstMatch(nodes, k) ==
    IF \E i \in 1..Len(nodes) : cases[nodes[i]].key = k
    THEN nodes[CHOOSE i \in 1..Len(nodes) :
                 /\ cases[nodes[i]].key = k
                 /\ \A j \in 1..(i-1) : cases[nodes[j]].key # k]
    ELSE NoNode

\* the membership test that never finds the case
is_node_m(g, case) == FALSE

\* "case not in self.graph_dict", negated
is_node(g, case) == InSeq(case, g.nodes)

\* dependency_graph.add_node(case), on graph g with the levels lv of the
\* cases. Result: the graph, the levels, msg (a warning is returned) and
\* err (TypeError raised by neighbor.level + 1 when neighbor.level is None).
add_node(g, lv, case) ==
    IF is_node(g, case)
    THEN [g |-> g, level |-> lv, msg |-> FALSE, err |-> FALSE]
    ELSE
      LET g1 == [g EXCEPT !.nodes = Append(g.nodes, case), !.dep[case] = NoNode]
          d  == cases[case].depends
          nb == IF d # NoKey THEN FirstMatch(g1.nodes, d) ELSE NoNode
          mp == Max2(g1.max_proc, cases[case].n_procs)
      IN  IF d = NoKey
          THEN [g |-> [g1 EXCEPT !.max_proc = mp],
                level |-> [lv EXCEPT ![case] = 0], msg |-> FALSE, err |-> FALSE]
          ELSE IF nb # NoNode
          THEN LET g2 == add_dependency(g1, case, nb).g
               IN  IF lv[nb] = NoLevel
                   THEN [g |-> g2, level |-> lv, msg |-> FALSE, err |-> TRUE]
                   ELSE [g |-> [g2 EXCEPT !.max_level = Max2(g2.max_level, lv[nb] + 1),
                                           !.max_proc = mp],
                         level |-> [lv EXCEPT ![case] = lv[nb] + 1],
                         msg |-> FALSE, err |-> FALSE]
          ELSE IF lv[case] = NoLevel
          THEN [g |-> [g1 EXCEPT !.max_proc = mp],
                level |-> [lv EXCEPT ![case] = 0], msg |-> TRUE, err |-> FALSE]
          ELSE [g |-> [g1 EXCEPT !.max_proc = mp],
                level |-> lv, msg |-> FALSE, err |-> FALSE]

\* dependency_graph.nodes()
nodes(g) == g.nodes

\* dependency_graph.extract_sub_graph(f_level, f_n_procs), from
\* node number i of g on, with sub graph sub and levels lv built so far.
\* NoLevel / 0 as a filter stand for None. err is "" or the exception:
\* TypeError from add_node, AttributeError from self.reporting, which
\* dependency_graph does not define.
RECURSIVE extract_from(_, _, _, _, _, _)
extract_from(g, i, sub, lv, f_level, f_n_procs) ==
    IF i > Len(g.nodes)
    THEN [g |-> sub, level |-> lv, err |-> ""]
    ELSE
      LET node == g.nodes[i]
          keep_node_l == IF f_level # NoLevel
                         THEN lv[node] = f_level ELSE TRUE
          keep_node_p == IF f_n_procs # 0
                         THEN cases[node].n_procs = f_n_procs ELSE TRUE
          r == add_node(sub, lv, node)
      IN  IF keep_node_l /\ keep_node_p
          THEN IF r.err
               THEN [g |-> r.g, level |-> r.level, err |-> "TypeError"]
               ELSE IF r.msg
               THEN [g |-> r.g, level |-> r.level, err |-> "AttributeError"]
               ELSE extract_from(g, i + 1, r.g, r.level, f_level, f_n_procs)
          ELSE extract_from(g, i + 1, sub, lv, f_level, f_n_procs)

extract_sub_graph(g, lv, f_level, f_n_procs) ==
    extract_from(g, 1, NewGraph, lv, f_level, f_n_procs)

\* ------------------------------------------------------------------------
\* Case.__init__
\* ------------------------------------------------------------------------

\* states of the run folder of a dependency: no folder, or the state
\* returned by get_case_state
\* a section name that is None, a character string that is None or empty,
\* the run_conf of a case without run.cfg
NoName == ""
NoStr  == <<>>
NoConf == [file |-> FALSE, sections |-> <<>>]

\* the decimal digits as characters
DigitChars == <<"0", "1", "2", "3", "4", "5", "6", "7", "8", "9">>

IsDigit(ch) == \E d \in 1..10 : DigitChars[d] = ch

DigitVal(ch) == (CHOOSE d \in 1..10 : DigitChars[d] = ch) - 1

\* str.find(ch): index from 0 of the first ch, -1 when there is none
find(tmp, ch) ==
    IF \E i \in 1..Len(tmp) : tmp[i] = ch
    THEN (CHOOSE i \in 1..Len(tmp) :
            tmp[i] = ch /\ \A j \in 1..(i - 1) : tmp[j] # ch) - 1
    ELSE -1

\* tmp[:ind]
slice_to(tmp, ind) ==
    IF ind >= 0
    THEN SubSeq(tmp, 1, Min2(ind, Len(tmp)))
    ELSE SubSeq(tmp, 1, Max2(0, Len(tmp) + ind))

\* tmp[-2:]
slice_last2(tmp) == SubSeq(tmp, Max2(1, Len(tmp) - 1), Len(tmp))

\* int() of a string of decimal digits; -1 stands for ValueError
RECURSIVE int(_)
int(str) ==
    IF str = <<>> \/ \E i \in 1..Len(str) : ~IsDigit(str[i])
    THEN -1
    ELSE IF Len(str) = 1
    THEN DigitVal(str[1])
    ELSE 10 * int(SubSeq(str, 1, Len(str) - 1)) + DigitVal(str[Len(str)])

\* the conversion that takes the last character for the minutes
to_minutes_m(tmp) ==
    LET ind == find(tmp, ":")
        hh  == int(slice_to(tmp, ind))
        mm  == int(SubSeq(tmp, Len(tmp), Len(tmp)))
    IN  IF hh < 0 \/ mm < 0 THEN -1 ELSE hh * 60 + mm

\* "Convert expected time in minutes":
\* int(tmp[:ind]) * 60 + int(tmp[-2:]); -1 stands for ValueError
to_minutes(tmp) ==
    LET ind == find(tmp, ":")
        hh  == int(slice_to(tmp, ind))
        mm  == int(slice_last2(tmp))
    IN  IF hh < 0 \/ mm < 0 THEN -1 ELSE hh * 60 + mm

\* run_conf.get(section, key): None when the section or the key is missing
run_conf_get(conf, section, key) ==
    IF section \in DOMAIN conf
    THEN conf[section][key]
    ELSE IF key = "expected_time" THEN NoStr ELSE NoValue

\* section names: <<name, "">> is [name], <<name, "run_id">> is
\* [name/run_id=<run_id of the case>], <<name, t>> is [name/tag=t]
rid_section(name) == <<name, "run_id">>

\* common_tag: the tag sections of name for the tags of the case that are
\* in run_conf.sections
common_tag(conf, name, tags) ==
    LET InConf(t) == <<name, t>> \in DOMAIN conf
        found == SelectSeq(tags, InConf)
    IN  [i \in 1..Len(found) |-> <<name, found[i]>>]

\* name is given and has a section of its own, for a tag or for the run_id
has_section(conf, name, tags) ==
    /\ name # NoName
    /\ \/ <<name, "">> \in DOMAIN conf
       \/ common_tag(conf, name, tags) # <<>>
       \/ rid_section(name) \in DOMAIN conf

\* resource_name after "specific resource defined with run_id dominates
\* over tag": the section that is read
config_section(conf, rc, tags) ==
    LET resource_name ==
            IF has_section(conf, rc.resource_name, tags) THEN rc.resource_name
            ELSE IF has_section(conf, rc.batch_name, tags) THEN rc.batch_name
            ELSE "job_defaults"
    IN  IF rid_section(resource_name) \in DOMAIN conf
        THEN rid_section(resource_name)
        ELSE IF common_tag(conf, resource_name, tags) # <<>>
        THEN Head(common_tag(conf, resource_name, tags))
        ELSE <<resource_name, "">>

\* __query_config__ that reads n_procs in the section of the resource, for
\* a run_id or not, and nowhere else
query_config_m(case) ==
    LET conf == run_conf[case].sections
        rc   == resource_config
        name == IF rid_section(rc.resource_name) \in DOMAIN conf
                THEN rid_section(rc.resource_name) ELSE <<rc.resource_name, "">>
        n    == IF ~run_conf[case].file THEN NoValue
                ELSE run_conf_get(conf, name, "n_procs")
    IN  [n_procs |-> IF n = NoValue THEN rc.resource_n_procs ELSE n,
         expected_time |-> rc.resource_exp_time, err |-> ""]

\* __query_config__ that also looks for expected_time in job_defaults
query_config_jd(case) ==
    LET conf == run_conf[case].sections
        rc   == resource_config
        name == config_section(conf, rc, cases[case].tags)
        n1   == run_conf_get(conf, name, "n_procs")
        n2   == IF n1 = NoValue /\ rc.batch
                THEN run_conf_get(conf, name, "job_header") ELSE n1
        n3   == IF n2 = NoValue
                THEN run_conf_get(conf, <<"job_defaults", "">>, "n_procs") ELSE n2
        n4   == IF n3 = NoValue THEN rc.resource_n_procs ELSE n3
        et0  == run_conf_get(conf, name, "expected_time")
        et   == IF et0 # NoStr THEN et0
                ELSE run_conf_get(conf, <<"job_defaults", "">>, "expected_time")
        t    == IF et # NoStr THEN to_minutes(et) ELSE rc.resource_exp_time
    IN  IF ~run_conf[case].file
        THEN [n_procs |-> rc.resource_n_procs,
              expected_time |-> rc.resource_exp_time, err |-> ""]
        ELSE IF t < 0
        THEN [n_procs |-> n4, expected_time |-> NoValue, err |-> "ValueError"]
        ELSE [n_procs |-> n4, expected_time |-> t, err |-> ""]

\* Case.__query_config__: n_procs and expected_time of the configuration.
\* job_header of a section is the n_procs that batch.get_n_procs finds in
\* its header lines (NoValue: no job_header, or None found).
query_config(case) ==
    LET conf == run_conf[case].sections
        rc   == resource_config
        name == config_section(conf, rc, cases[case].tags)
        n1   == run_conf_get(conf, name, "n_procs")
        n2   == IF n1 = NoValue /\ rc.batch
                THEN run_conf_get(conf, name, "job_header") ELSE n1
        n3   == IF n2 = NoValue
                THEN run_conf_get(conf, <<"job_defaults", "">>, "n_procs") ELSE n2
        n4   == IF n3 = NoValue THEN rc.resource_n_procs ELSE n3
        et   == run_conf_get(conf, name, "expected_time")
        t    == IF et # NoStr THEN to_minutes(et) ELSE rc.resource_exp_time
    IN  IF ~run_conf[case].file
        THEN [n_procs |-> rc.resource_n_procs,
              expected_time |-> rc.resource_exp_time, err |-> ""]
        ELSE IF t < 0
        THEN [n_procs |-> n4, expected_time |-> NoValue, err |-> "ValueError"]
        ELSE [n_procs |-> n4, expected_time |-> t, err |-> ""]

\* resources of a case where the configuration dominates over the file
query_resources_m(case) ==
    LET config == query_config(case)
    IN  [n_procs |-> config.n_procs, expected_time |-> config.expected_time,
         err |-> config.err]

\* "Query number of processes and expected computation time": n_procs of
\* the command line, else of the parameter file, else of the configuration;
\* expected_time of the parameter file, else of the configuration
query_resources(case) ==
    LET data_n_procs == IF opt_n_procs # NoValue THEN opt_n_procs
                        ELSE cases[case].data_n_procs
        data_time    == cases[case].data_expected_time
        config       == query_config(case)
    IN  IF data_n_procs = NoValue \/ data_time = NoValue
        THEN [n_procs |-> IF data_n_procs = NoValue THEN config.n_procs
                          ELSE data_n_procs,
              expected_time |-> IF data_time = NoValue THEN config.expected_time
                                ELSE data_time,
              err |-> config.err]
        ELSE [n_procs |-> data_n_procs, expected_time |-> data_time, err |-> ""]

DirStates == {"absent", "RUNNING", "FAILED", "FINALIZED"}

\* __query_dependence__ that never cancels the case
query_dependence_nocancel(case) ==
    [depends |-> IF dep_dir[case] = "FINALIZED" THEN NoKey ELSE inferred[case],
     cancel  |-> FALSE, err |-> ""]

\* __query_dependence__ that keeps the dependency on a finalized run
query_dependence_keep(case) ==
    [depends |-> inferred[case],
     cancel  |-> inferred[case] # NoKey
                 /\ dep_dir[case] \notin {"absent", "FINALIZED"},
     err |-> ""]

\* the case (study/label) of a composite key: the keys 1 and 2 are two
\* run_id of one label, the keys 3 and 4 two run_id of another one, ...
case_name(key) == (key + 1) \div 2

\* list_param.index(tag), for a tag of the list
index(list_param, tag) ==
    CHOOSE i \in 1..Len(list_param) :
      /\ list_param[i] = tag
      /\ \A j \in 1..(i-1) : list_param[j] # tag

\* os.path.normpath(os.path.join(study, label, resu, run_id_depends)) as a
\* composite key: a run_id names a run of the label of the case, a
\* relative path the run of another case
run_path(case, run_id_depends) ==
    LET name == case_name(cases[case].key)
    IN  CASE run_id_depends = "run1" -> 2 * name - 1
          [] run_id_depends = "run2" -> 2 * name
          [] run_id_depends = "../../CASE1/RESU/run1" -> 1
          [] run_id_depends = "../../CASE2/RESU/run1" -> 3

\* one turn of the loop "for tag in [-r, --restart]" on the value d of
\* depends: IndexError when the tag is the last word
restart_tag(case, tag, d) ==
    LET list_param == parametric[case]
    IN  IF d.err # "" THEN d
        ELSE IF InSeq(tag, list_param)
        THEN IF index(list_param, tag) + 1 > Len(list_param)
             THEN [depends |-> d.depends, err |-> "IndexError"]
             ELSE [depends |-> run_path(case, list_param[index(list_param, tag) + 1]),
                   err |-> ""]
        ELSE d

\* the restart given in the parametric arguments left aside
restart_depends_m(case) == [depends |-> inferred[case], err |-> ""]

\* depends before the run folder is looked at: the key of setup.xml,
\* overwritten by the restart of the parametric arguments
restart_depends(case) ==
    restart_tag(case, "--restart",
                restart_tag(case, "-r", [depends |-> inferred[case], err |-> ""]))

\* Case.__query_dependence__. cancel: no_restart is set and compute,
\* compare, plot are cleared. err: the exception raised.
query_dependence(case) ==
    LET d       == restart_depends(case)
        depends == d.depends
    IN  IF d.err # ""
        THEN [depends |-> NoKey, cancel |-> FALSE, err |-> d.err]
        ELSE IF depends # NoKey
        THEN IF dep_dir[case] # "absent"
             THEN IF dep_dir[case] = "FINALIZED"
                  THEN [depends |-> NoKey, cancel |-> FALSE, err |-> ""]
                  ELSE [depends |-> depends, cancel |-> TRUE, err |-> ""]
             ELSE [depends |-> depends, cancel |-> FALSE, err |-> ""]
        ELSE [depends |-> NoKey, cancel |-> FALSE, err |-> ""]

\* "if not self.depends" that always asks __query_dependence__
declared_depends_m(case) == query_dependence(case)

\* "if not self.depends: self.depends = self.__query_dependence__()"
declared_depends(case) ==
    IF cases[case].depends = NoKey
    THEN query_dependence(case)
    ELSE [depends |-> cases[case].depends, cancel |-> FALSE, err |-> ""]

\* construction of the next Case of the parameter file: flags from the
\* command selection, dependency inferred when none is given in the file
CaseInit ==
    /\ pc = "construct"
    /\ error = ""
    /\ built < Len(cases)
    /\ LET case == built + 1
           q    == declared_depends(case)
           r    == query_resources(case)
       IN  /\ built' = case
           /\ cases' = [cases EXCEPT ![case].depends = q.depends,
                                     ![case].n_procs = r.n_procs,
                                     ![case].expected_time = r.expected_time]
           /\ IF r.err # ""
              THEN Crash(r.err)
              ELSE IF q.err # ""
              THEN Crash(q.err)
              ELSE UNCHANGED <<pc, error>>
           /\ no_restart' = [no_restart EXCEPT ![case] = q.cancel]
           /\ compute' = [compute EXCEPT ![case] = smgr_cmd.compute /\ ~q.cancel]
           /\ compare' = [compare EXCEPT ![case] = smgr_cmd.compare /\ ~q.cancel]
           /\ plot' = [plot EXCEPT ![case] = smgr_cmd.post /\ ~q.cancel]
           /\ is_compiled' = [is_compiled EXCEPT ![case] = "not done"]
           /\ level' = [level EXCEPT ![case] = NoLevel]
           /\ job_id' = [job_id EXCEPT ![case] = NoJob]
    /\ UNCHANGED <<n_study, smgr_cmd, slurm_batch_wtime, stage, sbatch_fail,
                   filter_level, filter_n_procs, slurm_batch, mem_log, force_rm, parametric,
                   compare_nodes, exit_code,
                   inferred, dep_dir, opt_n_procs, resource_config, run_conf,
                   slurm_batch_size, dump_vars, graph,
                   loop_vars, batch_vars, slurm_vars,
                   ran, log, dest_resu, sub_graph, ret, api_calls>>

\* all the cases are constructed: dump_graph is next
ConstructEnd ==
    /\ pc = "construct"
    /\ error = ""
    /\ built = Len(cases)
    /\ pc' = "dump_graph"
    /\ UNCHANGED <<config_vars, ext_vars, slurm_batch_size, case_vars, dump_vars,
                   graph, error, loop_vars, batch_vars, slurm_vars>>

\* ------------------------------------------------------------------------
\* Direct calls of the methods of dependency_graph on a built graph
\* ------------------------------------------------------------------------

GraphBuilt ==
    /\ pc = "dump_graph"
    /\ error = ""
    /\ next_case = Len(cases)
    /\ api_calls < MaxCalls

\* global_graph.add_dependency((node1, node2)) for two nodes of the graph
AddDependencyCall ==
    /\ GraphBuilt
    /\ \E node1, node2 \in SeqSet(nodes(global_graph)) :
         LET r == add_dependency(global_graph, node1, node2)
         IN  /\ global_graph' = r.g
             /\ ret' = [op |-> "add_dependency", args |-> <<node1, node2>>,
                        msg |-> r.msg]
    /\ api_calls' = api_calls + 1
    /\ UNCHANGED <<config_vars, slurm_batch_size, case_vars, next_case, msg,
                   graph, pc, error, loop_vars, batch_vars, slurm_vars,
                   no_restart, built, ran, log, dest_resu, sub_graph>>

\* global_graph.add_node(case) for a case that is a node of the graph
ReAddNode ==
    /\ GraphBuilt
    /\ \E case \in SeqSet(nodes(global_graph)) :
         LET r == add_node(global_graph, level, case)
         IN  /\ global_graph' = r.g
             /\ level' = r.level
             /\ ret' = [op |-> "add_node", args |-> <<case>>, msg |-> r.msg]
    /\ api_calls' = api_calls + 1
    /\ UNCHANGED <<config_vars, slurm_batch_size, compute, compare, plot,
                   is_compiled, job_id, next_case, msg,
                   graph, pc, error, loop_vars, batch_vars, slurm_vars,
                   no_restart, built, ran, log, dest_resu, sub_graph>>

\* global_graph.extract_sub_graph(f_level, f_n_procs), any filters
ExtractCall ==
    /\ GraphBuilt
    /\ \E f_level \in {NoLevel} \cup (0..GraphCases) :
         \E f_n_procs \in 0..MaxProc :
           LET r == extract_sub_graph(global_graph, level, f_level, f_n_procs)
           IN  /\ sub_graph' = r.g
               /\ level' = r.level
               /\ error' = r.err
               /\ ret' = [op |-> "extract_sub_graph",
                          args |-> <<f_level, f_n_procs>>, msg |-> FALSE]
    /\ api_calls' = api_calls + 1
    /\ UNCHANGED <<config_vars, slurm_batch_size, compute, compare, plot,
                   is_compiled, job_id, dump_vars,
                   graph, pc, loop_vars, batch_vars, slurm_vars,
                   no_restart, built, ran, log, dest_resu>>

\* ------------------------------------------------------------------------
\* Studies.dump_graph (no level or n_procs filter given)
\* ------------------------------------------------------------------------

\* One iteration of the loop on the cases: the case joins the global graph
\* when one of its command flags is on.
AddNodeStep ==
    /\ pc = "dump_graph"
    /\ error = ""
    /\ next_case < Len(cases)
    /\ LET case == next_case + 1
           r    == add_node(global_graph, level, case)
       IN  /\ next_case' = case
           /\ IF compute[case] \/ compare[case] \/ plot[case]
                 \/ smgr_cmd.sheet \/ smgr_cmd.state
              THEN /\ global_graph' = r.g
                   /\ level' = r.level
                   /\ msg' = r.msg
                   /\ IF r.err
                      THEN Crash("TypeError")
                      ELSE UNCHANGED <<pc, error>>
              ELSE UNCHANGED <<global_graph, level, msg, pc, error>>
    /\ UNCHANGED <<config_vars, ext_vars, slurm_batch_size, compute, compare, plot,
                   is_compiled, job_id, graph, loop_vars, batch_vars, slurm_vars>>

\* "extract the sub graph based on filters and tags": the nodes of g from
\* number i on whose level and n_procs are the filters of the command line
\* are added to sub. A warning of add_node is reported and nothing else.
\* (The tests "is int(filter)" are equalities for the integers of a run.)
RECURSIVE filter_from(_, _, _, _)
filter_from(g, i, sub, lv) ==
    IF i > Len(g.nodes)
    THEN [g |-> sub, level |-> lv, err |-> ""]
    ELSE
      LET node == g.nodes[i]
          target_level == IF filter_level # NoLevel
                          THEN lv[node] = filter_level ELSE TRUE
          target_n_procs == IF filter_n_procs # 0
                            THEN cases[node].n_procs = filter_n_procs ELSE TRUE
          r == add_node(sub, lv, node)
      IN  IF target_level /\ target_n_procs
          THEN IF r.err
               THEN [g |-> r.g, level |-> r.level, err |-> "TypeError"]
               ELSE filter_from(g, i + 1, r.g, r.level)
          ELSE filter_from(g, i + 1, sub, lv)

\* End of dump_graph: self.graph is the filtered graph when a filter is
\* given, global_graph otherwise
DumpGraphEnd ==
    /\ pc = "dump_graph"
    /\ error = ""
    /\ next_case = Len(cases)
    /\ IF filter_level # NoLevel \/ filter_n_procs # 0
       THEN LET f == filter_from(global_graph, 1, NewGraph, level)
            IN  /\ graph' = f.g
                /\ level' = f.level
                /\ IF f.err # ""
                   THEN Crash(f.err)
                   ELSE pc' = "create_studies" /\ UNCHANGED error
       ELSE /\ graph' = global_graph
            /\ pc' = "create_studies"
            /\ UNCHANGED <<level, error>>
    /\ UNCHANGED <<config_vars, ext_vars, slurm_batch_size, compute, compare,
                   plot, is_compiled, job_id, dump_vars,
                   loop_vars, batch_vars, slurm_vars>>

\* ------------------------------------------------------------------------
\* Studies.create_studies(run_step = True)
\* ------------------------------------------------------------------------

\* retval of the loop on the sub domains: "retval = 1", then
\* "retval = min(node_retval, retval)" after each staging command
RECURSIVE reduce_retval(_, _)
reduce_retval(codes, retval) ==
    IF codes = <<>>
    THEN retval
    ELSE reduce_retval(Tail(codes), Min2(Head(codes), retval))

\* retval and have_status_prepared of prepare_run_folder at "if retval == 0".
\* With sub domains run_status.prepared is not looked for; without, it is
\* looked for and the staging command is run in any case.
staging(case) ==
    IF stage[case].coupled
    THEN [retval |-> reduce_retval(stage[case].codes, 1),
          have_status_prepared |-> FALSE]
    ELSE [retval |-> stage[case].codes[1],
          have_status_prepared |-> stage[case].prepared]

\* the cases that reach "self.compute = False"
stage_fail ==
    {c \in Ids : staging(c).retval # 0 /\ ~staging(c).have_status_prepared}

\* prepare_run_folder where one staging failure turns every case off
prepare_run_folder_m(case, cmp) ==
    IF stage_fail # {} THEN FALSE ELSE cmp

\* Case.prepare_run_folder: compute is set to False for the cases of
\* stage_fail.
prepare_run_folder(case, cmp) ==
    IF case \in stage_fail THEN FALSE ELSE cmp

\* fail_info that follows run_status.prepared alone
fail_info_m(case) ==
    IF staging(case).have_status_prepared
    THEN "SKIPPED (already prepared)"
    ELSE "FAILED"

\* fail_info of prepare_run_folder, for a staging that did not return 0
fail_info(case) ==
    IF stage[case].case_log
    THEN IF staging(case).have_status_prepared
         THEN "SKIPPED (already prepared)"
         ELSE "SKIPPED (already present)"
    ELSE "FAILED"

\* the status written in the line "prepare run folder: title --> status"
\* of log_lines
prepare_status(case) ==
    IF staging(case).retval = 0 THEN "OK" ELSE fail_info(case)

\* the test that forgets the cases already cleaned
clean_resu_m(name, case_list) == force_rm

\* "if case_name not in case_list and self.__force_rm"
clean_resu(name, case_list) == name \notin case_list /\ force_rm

\* the loop of create_studies(run_step = True) from node number i of the
\* graph on: the RESU folder of the case is removed when it has to be
\* cleaned and holds something, then its run folder is prepared. resu is
\* the state of the run folders and lines the lines reported so far.
RECURSIVE create_from(_, _, _, _)
create_from(i, case_list, resu, lines) ==
    IF i > Len(graph.nodes)
    THEN [dest_resu |-> resu, lines |-> lines]
    ELSE
      LET case  == graph.nodes[i]
          name  == case_name(cases[case].key)
          clean == clean_resu(name, case_list)
          rm    == clean /\ \E k \in DOMAIN resu :
                              case_name(k) = name /\ resu[k] # "absent"
          resu1 == IF rm
                   THEN [k \in DOMAIN resu |->
                           IF case_name(k) = name THEN "absent" ELSE resu[k]]
                   ELSE resu
          lines1 == IF rm
                    THEN Append(lines, [case |-> case, step |-> "clean RESU folder",
                                        status |-> "removed"])
                    ELSE lines
          resu2 == IF staging(case).retval = 0
                   THEN [k \in DOMAIN resu1 |->
                           IF k = cases[case].key THEN "PREPARED" ELSE resu1[k]]
                   ELSE resu1
          lines2 == Append(lines1, [case |-> case, step |-> "prepare run folder",
                                    status |-> prepare_status(case)])
      IN  create_from(i + 1, IF clean THEN case_list \cup {name} ELSE case_list,
                      resu2, lines2)

\* Studies.create_studies(run_step = True): the run folder of every case of
\* the graph is prepared and the lines returned are reported
CreateStudies ==
    /\ pc = "create_studies"
    /\ error = ""
    /\ compute' = [c \in Ids |-> IF InSeq(c, graph.nodes)
                                 THEN prepare_run_folder(c, compute[c])
                                 ELSE compute[c]]
    /\ LET r == create_from(1, {}, dest_resu, <<>>)
       IN  /\ log' = log \o r.lines
           /\ dest_resu' = r.dest_resu
    /\ pc' = IF slurm_batch THEN "run_slurm" ELSE "run"
    /\ UNCHANGED <<config_vars, no_restart, built, ran, sub_graph, ret, api_calls,
                   slurm_batch_size, compare, plot, is_compiled,
                   level, job_id, dump_vars, graph, error,
                   loop_vars, batch_vars, slurm_vars>>

\* ------------------------------------------------------------------------
\* Studies.check_slurm_batches
\* ------------------------------------------------------------------------

\* "if case.expected_time < 5", "if nb_cases_short > 50" and
\* "self.__slurm_batch_size = 50"
ShortTime == 5
ShortCount == 50
ShortBatchSize == 50

\* nb_cases_short after the cells from number j on, the cells being
\* numbered level by level; lv are the levels of the cases, which
\* extract_sub_graph writes.
RECURSIVE count_short(_, _, _)
count_short(j, lv, nb_cases_short) ==
    IF j >= (graph.max_level + 1) * graph.max_proc
    THEN [level |-> lv, nb_cases_short |-> nb_cases_short, err |-> ""]
    ELSE
      LET r == extract_sub_graph(graph, lv, j \div graph.max_proc,
                                 (j % graph.max_proc) + 1)
          short == {c \in SeqSet(r.g.nodes) : cases[c].expected_time < ShortTime}
      IN  IF r.err # ""
          THEN [level |-> r.level, nb_cases_short |-> nb_cases_short, err |-> r.err]
          ELSE count_short(j + 1, r.level, nb_cases_short + Cardinality(short))

CheckSlurmBatches ==
    /\ pc = "create_studies"
    /\ error = ""
    /\ IF slurm_batch_size = 1
       THEN LET r == count_short(0, level, 0)
            IN  /\ level' = r.level
                /\ IF r.err # ""
                   THEN /\ Crash(r.err)
                        /\ UNCHANGED slurm_batch_size
                   ELSE /\ slurm_batch_size' =
                             IF r.nb_cases_short > ShortCount
                             THEN ShortBatchSize ELSE slurm_batch_size
                        /\ pc' = "checked"
                        /\ UNCHANGED error
       ELSE /\ pc' = "checked"
            /\ UNCHANGED <<level, slurm_batch_size, error>>
    /\ UNCHANGED <<config_vars, ext_vars, compute, compare, plot, is_compiled,
                   job_id, dump_vars, graph, loop_vars, batch_vars, slurm_vars>>

\* ------------------------------------------------------------------------
\* Studies.check_compare
\* ------------------------------------------------------------------------

\* Case.check_dir(node, result, rep, attr) on the directory result: exists,
\* runs (the entries that os.listdir gives, files with a dot left out), ok
\* (the runs for which run_ok holds). Returns rep and msg (TRUE: a warning).
check_dir(result, rep, run_id) ==
    LET found(r) == IF InSeq(r, result.runs) /\ r \in result.ok
                    THEN [rep |-> r, msg |-> FALSE]
                    ELSE [rep |-> "", msg |-> TRUE]
    IN  IF ~result.exists
        THEN [rep |-> "", msg |-> TRUE]
        ELSE IF rep # ""
        THEN found(rep)
        ELSE IF Len(result.runs) = 0
        THEN [rep |-> "", msg |-> TRUE]
        ELSE IF Len(result.runs) > 1 /\ run_id = "run1"
        THEN [rep |-> "", msg |-> TRUE]
        ELSE found(IF run_id = "run1" THEN result.runs[1] ELSE run_id)

\* check_dirs that returns a message when one of the two checks gives one
check_dirs_m(case, m) ==
    LET cn == compare_nodes[case]
    IN  \/ m.has_repo /\ check_dir(cn.repo_dir, m.repo, cn.run_id).msg
        \/ m.has_dest /\ check_dir(cn.dest_dir, m.dest, cn.run_id).msg

\* Case.check_dirs(node, repo, dest) for the compare markup m of case: msg
\* is None, then the msg of check_dir on the repository when repo is not
\* None, then the msg of check_dir on the destination when dest is not None
check_dirs(case, m) ==
    LET cn   == compare_nodes[case]
        msg0 == FALSE
        msg1 == IF m.has_repo
                THEN check_dir(cn.repo_dir, m.repo, cn.run_id).msg ELSE msg0
        msg2 == IF m.has_dest
                THEN check_dir(cn.dest_dir, m.dest, cn.run_id).msg ELSE msg1
    IN  msg2

\* the loop of check_compare on the compare markups of case from number i
\* on, cmp being case.compare: returns case.compare
RECURSIVE check_nodes(_, _, _)
check_nodes(case, i, cmp) ==
    LET nds == compare_nodes[case].markups
    IN  IF i > Len(nds)
        THEN cmp
        ELSE IF nds[i].status /\ cmp /\ check_dirs(case, nds[i])
        THEN check_nodes(case, i + 1, FALSE)
        ELSE check_nodes(case, i + 1, cmp)

\* Studies.check_compare: the compare markups of the cases of the graph are
\* checked; a case whose compare flag is turned off is reported
CheckCompare ==
    /\ pc = "create_studies"
    /\ error = ""
    /\ compare' = [c \in Ids |-> IF InSeq(c, graph.nodes)
                                 THEN check_nodes(c, 1, compare[c])
                                 ELSE compare[c]]
    /\ log' = log \o SelectSeq([i \in 1..Len(graph.nodes) |->
                                  [case |-> graph.nodes[i], step |-> "check compare",
                                   status |-> "COMPARISON DISABLED"]],
                               LAMBDA l : compare[l.case] /\ ~compare'[l.case])
    /\ pc' = "compared"
    /\ UNCHANGED <<config_vars, no_restart, built, ran, dest_resu, sub_graph, ret,
                   api_calls,
                   slurm_batch_size, compute, plot, is_compiled,
                   level, job_id, dump_vars, graph, error,
                   loop_vars, batch_vars, slurm_vars>>

\* ------------------------------------------------------------------------
\* Studies.run (direct runs)
\* ------------------------------------------------------------------------

\* the test of the bit of value 1 instead
leak_bit_m(code) == code % 2 = 1

\* error & mem_log_leak_code
leak_bit(code) == (code \div 2) % 2 = 1

\* Case.run that takes a code with the leak bit for a leak only
run_m(case) ==
    LET leak == mem_log /\ leak_bit(exit_code[case])
    IN  [error |-> IF leak THEN 0 ELSE exit_code[case], mem_log_leak |-> leak]

\* Case.run: exit code of the run command, less the memory leak code when
\* mem_log is on; compare and plot are cleared when it is not 0
run(case) ==
    LET code  == exit_code[case]
        leak  == mem_log /\ leak_bit(code)
        err   == IF leak THEN code - 2 ELSE code
    IN  [error |-> err, mem_log_leak |-> leak]

\* the lines reported by Studies.run after the run of case returned r
run_report(case, r) ==
    <<[case |-> case, step |-> "run",
       status |-> IF r.error = 0 THEN "OK" ELSE "FAILED"]>>
      \o (IF mem_log /\ r.mem_log_leak
          THEN <<[case |-> case, step |-> "run", status |-> "Leaks in memory logs"]>>
          ELSE <<>>)

\* start of Studies.run
RunBegin ==
    /\ pc = "run"
    /\ error = ""
    /\ todo' = nodes(graph)
    /\ pc' = "run_loop"
    /\ UNCHANGED <<config_vars, ext_vars, slurm_batch_size, case_vars, dump_vars,
                   graph, error, loop_level, nproc, batch_vars, slurm_vars>>

\* one iteration of the loop of Studies.run on the cases of the graph
RunCaseStep ==
    /\ pc = "run_loop"
    /\ error = ""
    /\ todo # <<>>
    /\ todo' = Tail(todo)
    /\ LET case == Head(todo)
           r    == run(case)
       IN  IF compute[case] /\ is_compiled[case] # "KO"
           THEN /\ ran' = Append(ran, case)
                /\ compare' = IF r.error # 0
                              THEN [compare EXCEPT ![case] = FALSE] ELSE compare
                /\ plot' = IF r.error # 0
                           THEN [plot EXCEPT ![case] = FALSE] ELSE plot
                /\ log' = log \o run_report(case, r)
           ELSE UNCHANGED <<ran, compare, plot, log>>
    /\ UNCHANGED <<config_vars, slurm_batch_size, compute, is_compiled, level,
                   job_id, dump_vars, graph, pc, error, loop_level, nproc,
                   batch_vars, slurm_vars, no_restart, built, dest_resu,
                   sub_graph, ret, api_calls>>

\* end of Studies.run
RunEnd ==
    /\ pc = "run_loop"
    /\ error = ""
    /\ todo = <<>>
    /\ pc' = "done"
    /\ UNCHANGED <<config_vars, ext_vars, slurm_batch_size, case_vars, dump_vars,
                   graph, error, loop_vars, batch_vars, slurm_vars>>

\* ------------------------------------------------------------------------
\* Studies.run_slurm_batches
\* ------------------------------------------------------------------------

\* the locals that describe the batch being filled
CurBatch ==
    [cmd |-> batch_cmd.runs, size |-> cur_batch_size, time |-> batch_total_time,
     deps |-> dep_job_id_list, cases |-> cases_list]

\* their values at the start of a cell and after a submission
EmptyBatch ==
    [cmd |-> <<>>, size |-> 0, time |-> 0, deps |-> <<>>, cases |-> <<>>]

\* "append content of batch command with run of the case": the case joins
\* the batch b; at level > 0 the job_id of its dependency joins the
\* dependency list unless already there. jid: current Case.job_id.
append_case(b, case, lvl, jid) ==
    LET depend_id == jid[graph.dep[case]]
    IN  [cmd   |-> Append(b.cmd, case),
         size  |-> b.size + 1,
         time  |-> b.time + cases[case].expected_time,
         cases |-> Append(b.cases, case),
         deps  |-> IF lvl > 0
                   THEN IF InSeq(depend_id, b.deps) THEN b.deps
                        ELSE Append(b.deps, depend_id)
                   ELSE b.deps]

\* self.graph.graph_dict[case].job_id raises AttributeError when the case
\* has no dependency recorded in self.graph
no_dependency_error(case, lvl) == lvl > 0 /\ graph.dep[case] = NoNode

\* rank of the next sbatch call; sbatch prints the job identifier found by
\* re.search on success, one new identifier per call
next_call == Len(submitted) + 1

job_token(call) == call

sbatch_ok(call) == call # sbatch_fail

\* the sbatch call of a compute batch b: script header (ntasks, wall time
\* hh:mm), cases run by the script, --dependency=afterany list (none at
\* level 0, none when the list is empty)
submission(b, ntasks, lvl, call) ==
    [ntasks |-> ntasks,
     hh     |-> b.time \div 60,
     mm     |-> b.time % 60,
     cases  |-> b.cases,
     deps   |-> IF lvl < 1 THEN <<>> ELSE b.deps,
     id     |-> cur_batch_id,
     job    |-> job_token(call),
     level  |-> lvl,
     final  |-> FALSE]

\* "find job id with regex and store it": every case of the batch gets the
\* job identifier
stamp(jid, b, call) ==
    [c \in Ids |-> IF InSeq(c, b.cases) THEN job_token(call) ELSE jid[c]]

SetBatch(b) ==
    /\ batch_cmd' = [bound |-> TRUE, runs |-> b.cmd]
    /\ cur_batch_size' = b.size
    /\ batch_total_time' = b.time
    /\ dep_job_id_list' = b.deps
    /\ cases_list' = b.cases

\* the fit test without the expected time of the new case
fits_in_batch_m(case) ==
    \/ cur_batch_size = 0
    \/ batch_total_time < slurm_batch_wtime

\* the submit test with the batch size compared by >
submit_now_m(b, submit_prev) ==
    \/ b.size > slurm_batch_size
    \/ submit_prev
    \/ b.time >= slurm_batch_wtime

\* "check future submission total time": the case joins the current batch
\* when the batch is empty or the total time stays under the wall time
fits_in_batch(case) ==
    \/ cur_batch_size = 0
    \/ batch_total_time + cases[case].expected_time < slurm_batch_wtime

\* "submit once batch size or wall time is reached", b being the batch
\* after the case was considered
submit_now(b, submit_prev) ==
    \/ b.size >= slurm_batch_size
    \/ submit_prev
    \/ b.time >= slurm_batch_wtime

\* start of run_slurm_batches, up to the loops
RunSlurmBegin ==
    /\ pc = "run_slurm"
    /\ error = ""
    /\ cur_batch_id' = 0
    /\ tot_job_id_list' = <<>>
    /\ loop_level' = 0
    /\ nproc' = 0
    /\ pc' = IF graph.max_proc > 0 THEN "cell" ELSE "final"
    /\ UNCHANGED <<config_vars, ext_vars, slurm_batch_size, case_vars, dump_vars, graph,
                   error, todo, batch_vars, submitted>>

\* start of the body of the loop on nproc: the locals of the batch are
\* reset and the sub graph of the cell (level, nproc+1) is extracted
CellBegin ==
    /\ pc = "cell"
    /\ error = ""
    /\ LET r == extract_sub_graph(graph, level, loop_level, nproc + 1)
       IN  /\ level' = r.level
           /\ IF r.err # ""
              THEN /\ Crash(r.err)
                   /\ UNCHANGED todo
              ELSE /\ pc' = "loop"
                   /\ todo' = r.g.nodes
                   /\ UNCHANGED error
    /\ SetBatch(EmptyBatch)
    /\ UNCHANGED <<config_vars, ext_vars, slurm_batch_size, compute, compare, plot,
                   is_compiled, job_id, dump_vars, graph, loop_level, nproc,
                   slurm_vars>>

\* one iteration of the loop on the cases of the sub graph
CaseStep ==
    /\ pc = "loop"
    /\ error = ""
    /\ todo # <<>>
    /\ todo' = Tail(todo)
    /\ LET case == Head(todo)
           fits == fits_in_batch(case)
           submit_prev == ~fits
           b1 == IF fits THEN append_case(CurBatch, case, loop_level, job_id)
                 ELSE CurBatch
           do_submit == submit_now(b1, submit_prev)
           call == next_call
           jid1 == IF do_submit THEN stamp(job_id, b1, call) ELSE job_id
           b2 == IF do_submit THEN EmptyBatch ELSE b1
           b3 == IF submit_prev THEN append_case(b2, case, loop_level, jid1)
                 ELSE b2
           no_dep == no_dependency_error(case, loop_level)
       IN  IF ~(compute[case] /\ is_compiled[case] # "KO")
           THEN UNCHANGED <<pc, error, job_id, batch_vars, slurm_vars>>
           ELSE IF fits /\ no_dep
           THEN /\ Crash("AttributeError")
                /\ UNCHANGED <<job_id, batch_vars, slurm_vars>>
           ELSE IF do_submit /\ ~sbatch_ok(call)
           THEN /\ Crash("CalledProcessError")
                /\ UNCHANGED <<job_id, batch_vars, slurm_vars>>
           ELSE /\ job_id' = jid1
                /\ IF do_submit
                   THEN /\ submitted' = Append(submitted,
                                submission(b1, nproc + 1, loop_level, call))
                        /\ tot_job_id_list' = Append(tot_job_id_list, job_token(call))
                        /\ cur_batch_id' = cur_batch_id + 1
                   ELSE UNCHANGED slurm_vars
                /\ IF submit_prev /\ no_dep
                   THEN /\ Crash("AttributeError")
                        /\ SetBatch(b2)
                   ELSE /\ SetBatch(b3)
                        /\ UNCHANGED <<pc, error>>
    /\ UNCHANGED <<config_vars, ext_vars, slurm_batch_size, compute, compare, plot,
                   is_compiled, level, dump_vars, graph, loop_level, nproc>>

\* end of the loop on the cases: the batch left, if any, is submitted, and
\* the loops on nproc and level go on
CellEnd ==
    /\ pc = "loop"
    /\ error = ""
    /\ todo = <<>>
    /\ LET call == next_call
           more_nproc == nproc + 1 < graph.max_proc
           more_level == loop_level < graph.max_level
       IN  IF cur_batch_size > 0 /\ ~sbatch_ok(call)
           THEN /\ Crash("CalledProcessError")
                /\ UNCHANGED <<job_id, batch_vars, slurm_vars, loop_level, nproc>>
           ELSE /\ IF cur_batch_size > 0
                   THEN /\ submitted' = Append(submitted,
                                submission(CurBatch, nproc + 1, loop_level, call))
                        /\ tot_job_id_list' = Append(tot_job_id_list, job_token(call))
                        /\ cur_batch_id' = cur_batch_id + 1
                        /\ job_id' = stamp(job_id, CurBatch, call)
                        /\ SetBatch(EmptyBatch)
                   ELSE UNCHANGED <<job_id, batch_vars, slurm_vars>>
                /\ nproc' = IF more_nproc THEN nproc + 1 ELSE 0
                /\ loop_level' = IF more_nproc \/ ~more_level
                                 THEN loop_level ELSE loop_level + 1
                /\ pc' = IF more_nproc \/ more_level THEN "cell" ELSE "final"
                /\ UNCHANGED error
    /\ UNCHANGED <<config_vars, ext_vars, slurm_batch_size, compute, compare, plot,
                   is_compiled, level, dump_vars, graph, todo>>

\* "final submission for postprocessing, comparaison and state analysis":
\* 10 minutes per study, one task, dependent on all job identifiers.
\* batch_cmd += ... raises UnboundLocalError when no cell was entered.
FinalBatch ==
    /\ pc = "final"
    /\ error = ""
    /\ LET call == next_call
       IN  IF ~batch_cmd.bound
           THEN /\ Crash("UnboundLocalError")
                /\ UNCHANGED submitted
           ELSE IF ~sbatch_ok(call)
           THEN /\ Crash("CalledProcessError")
                /\ UNCHANGED submitted
           ELSE /\ submitted' = Append(submitted,
                        [ntasks |-> 1,
                         hh     |-> (n_study * 10) \div 60,
                         mm     |-> (n_study * 10) % 60,
                         cases  |-> <<>>,
                         deps   |-> tot_job_id_list,
                         id     |-> cur_batch_id,
                         job    |-> job_token(call),
                         level  |-> NoLevel,
                         final  |-> TRUE])
                /\ pc' = "done"
                /\ UNCHANGED error
    /\ UNCHANGED <<config_vars, ext_vars, slurm_batch_size, case_vars, dump_vars, graph,
                   loop_vars, batch_vars, cur_batch_id, tot_job_id_list>>

\* ------------------------------------------------------------------------
\* Initial states: the parameter file and the options of one run
\* ------------------------------------------------------------------------

\* default number of cases per batch, default wall time (8 hours) and
\* default expected time of a case, in minutes
DefaultBatchSize == 1
DefaultWTime == 480
DefaultExpTime == 180

\* The composite keys of n cases, up to renaming: the first case has key 1
\* and a case has a key already used or the next unused one. Two cases of
\* the file may have the same key (same study, label and run_id).
KeyMaps(n) ==
    {k \in [1..n -> 1..n] :
        \A i \in 1..n : \A v \in 1..(k[i] - 1) : \E j \in 1..(i-1) : k[j] = v}

\* depends of n cases with keys k: None, the key of a case, or one key
\* that no case has
DepMaps(n, k) ==
    {d \in [1..n -> 0..(n+1)] :
        \A i \in 1..n : d[i] = NoKey \/ d[i] = n + 1 \/ \E j \in 1..n : k[j] = d[i]}

\* cases without sub domains, run_status.prepared and run_case.log, the
\* staging of the cases of fails returning 1
StageOf(D, fails) ==
    [c \in D |-> [coupled |-> FALSE,
                  codes |-> <<IF c \in fails THEN 1 ELSE 0>>,
                  prepared |-> FALSE, case_log |-> FALSE]]

\* what the staging of a case can meet: one command without sub domains,
\* one command per sub domain otherwise
Stages ==
    LET Codes == (0 - MaxRet)..MaxRet
    IN  [coupled : {FALSE}, codes : [1..1 -> Codes], prepared : BOOLEAN,
         case_log : BOOLEAN]
        \cup UNION {[coupled : {TRUE}, codes : [1..k -> Codes], prepared : BOOLEAN,
                      case_log : BOOLEAN] : k \in 1..MaxSub}

\* resource_config without resource and batch names: one process,
\* DefaultExpTime minutes
DefaultResource ==
    [resource_name |-> NoName, batch_name |-> NoName, batch |-> FALSE,
     resource_n_procs |-> 1, resource_exp_time |-> DefaultExpTime]

\* a destination without run folder
NoRuns(cs) == [k \in 1..(Len(cs) + 1) |-> "absent"]

\* a RESU directory that does not exist
NoDir == [exists |-> FALSE, runs |-> <<>>, ok |-> {}]

\* a case with the default run_id and without compare markup
NoCompare ==
    [run_id |-> "run1", repo_dir |-> NoDir, dest_dir |-> NoDir, markups |-> <<>>]

\* value of ret before any direct call
NoCall == [op |-> "none", args |-> <<>>, msg |-> FALSE]

\* The same with the filters fl and fp of the command line, in batch mode
\* (sb) or with direct runs
InitExtC(cs, fl, fp, sb, cn) ==
    /\ filter_level = fl
    /\ filter_n_procs = fp
    /\ slurm_batch = sb
    /\ mem_log = FALSE
    /\ force_rm = FALSE
    /\ parametric = [c \in DOMAIN cs |-> <<>>]
    /\ dest_resu = NoRuns(cs)
    /\ compare_nodes = cn
    /\ exit_code = [c \in DOMAIN cs |-> 0]
    /\ inferred = [c \in DOMAIN cs |-> NoKey]
    /\ dep_dir = [c \in DOMAIN cs |-> "absent"]
    /\ opt_n_procs = NoValue
    /\ resource_config = DefaultResource
    /\ run_conf = [c \in DOMAIN cs |-> NoConf]
    /\ no_restart = [c \in DOMAIN cs |-> FALSE]
    /\ built = Len(cs)
    /\ ran = <<>>
    /\ log = <<>>
    /\ sub_graph = [nodes |-> <<>>, dep |-> [c \in DOMAIN cs |-> NoNode],
                    max_level |-> 0, max_proc |-> 0]
    /\ ret = NoCall
    /\ api_calls = 0

\* The same without compare markup
InitExtM(cs, fl, fp, sb) ==
    InitExtC(cs, fl, fp, sb, [c \in DOMAIN cs |-> NoCompare])

InitExtF(cs, fl, fp) == InitExtM(cs, fl, fp, TRUE)

\* No filter, batch mode, no memory log, every run command returning 0, no
\* inferred dependency; the cases are constructed, no case has run and no
\* direct call on the graph was made.
InitExt(cs) == InitExtF(cs, NoLevel, 0)

\* state after the construction of Studies and of its cases, before
\* dump_graph
InitCoreC(cs, st, sbfail, size, wtime, nst, cmp) ==
    /\ cases = cs
    /\ n_study = nst
    /\ smgr_cmd = [compute |-> TRUE, compare |-> cmp, post |-> FALSE,
                   sheet |-> FALSE, state |-> FALSE]
    /\ slurm_batch_size = size
    /\ slurm_batch_wtime = wtime
    /\ stage = st
    /\ sbatch_fail = sbfail
    /\ compute = [c \in DOMAIN cs |-> TRUE]
    /\ compare = [c \in DOMAIN cs |-> cmp]
    /\ plot = [c \in DOMAIN cs |-> FALSE]
    /\ is_compiled = [c \in DOMAIN cs |-> "not done"]
    /\ level = [c \in DOMAIN cs |-> NoLevel]
    /\ job_id = [c \in DOMAIN cs |-> NoJob]
    /\ global_graph = [nodes |-> <<>>, dep |-> [c \in DOMAIN cs |-> NoNode],
                       max_level |-> 0, max_proc |-> 0]
    /\ next_case = 0
    /\ msg = FALSE
    /\ graph = [nodes |-> <<>>, dep |-> [c \in DOMAIN cs |-> NoNode],
                max_level |-> 0, max_proc |-> 0]
    /\ pc = "dump_graph"
    /\ error = ""
    /\ loop_level = 0
    /\ nproc = 0
    /\ todo = <<>>
    /\ batch_cmd = [bound |-> FALSE, runs |-> <<>>]
    /\ cur_batch_size = 0
    /\ batch_total_time = 0
    /\ dep_job_id_list = <<>>
    /\ cases_list = <<>>
    /\ cur_batch_id = 0
    /\ tot_job_id_list = <<>>
    /\ submitted = <<>>

\* the same with compute selected alone
InitCoreS(cs, st, sbfail, size, wtime, nst) ==
    InitCoreC(cs, st, sbfail, size, wtime, nst, FALSE)

InitCore(cs, fails, sbfail, size, wtime, nst) ==
    InitCoreS(cs, StageOf(DOMAIN cs, fails), sbfail, size, wtime, nst)

InitRun(cs, fails, sbfail, size, wtime, nst) ==
    /\ InitCore(cs, fails, sbfail, size, wtime, nst)
    /\ InitExt(cs)

CaseList(n, k, d, p, t) ==
    [i \in 1..n |-> [key |-> k[i], depends |-> d[i], n_procs |-> p[i],
                     expected_time |-> t[i]]]

\* General runs: any keys and dependencies, any process counts, default
\* expected time and wall time, any staging failures.
Init ==
    \E n \in 0..MaxCases :
      \E k \in KeyMaps(n) :
        \E d \in DepMaps(n, k) :
          \E p \in [1..n -> 1..MaxProc] :
            \E fails \in SUBSET (1..n) :
              \E size \in {DefaultBatchSize, MaxSize} :
                \E nst \in 1..MaxStudy :
                  InitRun(CaseList(n, k, d, p, [i \in 1..n |-> DefaultExpTime]),
                          fails, 0, size, DefaultWTime, nst)

\* Runs with all cases on one process, no staging failure: any keys and
\* dependencies.
InitDup ==
    \E k \in KeyMaps(DupCases) :
      \E d \in DepMaps(DupCases, k) :
        \E size \in {DefaultBatchSize, MaxSize} :
          InitRun(CaseList(DupCases, k, d, [i \in 1..DupCases |-> 1],
                           [i \in 1..DupCases |-> DefaultExpTime]),
                  {}, 0, size, DefaultWTime, 1)

\* Packing runs: independent cases with one process count, any expected
\* times, any batch size and wall time.
InitPack ==
    \E n \in 0..PackCases :
      \E p \in 1..MaxProc :
        \E t \in [1..n -> 1..MaxTime] :
          \E size \in 1..MaxSize :
            \E wtime \in 1..MaxWTime :
              InitRun(CaseList(n, [i \in 1..n |-> i], [i \in 1..n |-> NoKey],
                               [i \in 1..n |-> p], t),
                      {}, 0, size, wtime, 1)

\* Graph construction: any keys, dependencies and process counts.
InitGraph ==
    \E n \in 0..GraphCases :
      \E k \in KeyMaps(n) :
        \E d \in DepMaps(n, k) :
          \E p \in [1..n -> 1..MaxProc] :
            InitRun(CaseList(n, k, d, p, [i \in 1..n |-> DefaultExpTime]),
                    {}, 0, DefaultBatchSize, DefaultWTime, 1)

\* State before the construction of the cases cs of the parameter file,
\* for the command selection cmd, the inferred dependencies inf with run
\* folders dir, n_procs opt of the command line, resource_config rc and
\* the run.cfg files conf. The Case attributes have no value before
\* CaseInit.
InitCasesR(cs, cmd, inf, dir, opt, rc, conf, rm, par, resu, fails) ==
    /\ cases = cs
    /\ force_rm = rm
    /\ parametric = par
    /\ dest_resu = resu
    /\ n_study = 1
    /\ smgr_cmd = [compute |-> cmd["compute"],
                   compare |-> cmd["compare"],
                   post |-> cmd["post"],
                   sheet |-> FALSE, state |-> FALSE]
    /\ slurm_batch_size = DefaultBatchSize
    /\ slurm_batch_wtime = DefaultWTime
    /\ stage = StageOf(DOMAIN cs, fails)
    /\ sbatch_fail = 0
    /\ compute = [c \in DOMAIN cs |-> FALSE]
    /\ compare = [c \in DOMAIN cs |-> FALSE]
    /\ plot = [c \in DOMAIN cs |-> FALSE]
    /\ is_compiled = [c \in DOMAIN cs |-> "not done"]
    /\ level = [c \in DOMAIN cs |-> NoLevel]
    /\ job_id = [c \in DOMAIN cs |-> NoJob]
    /\ global_graph = [nodes |-> <<>>, dep |-> [c \in DOMAIN cs |-> NoNode],
                       max_level |-> 0, max_proc |-> 0]
    /\ next_case = 0
    /\ msg = FALSE
    /\ graph = [nodes |-> <<>>, dep |-> [c \in DOMAIN cs |-> NoNode],
                max_level |-> 0, max_proc |-> 0]
    /\ pc = "construct"
    /\ error = ""
    /\ loop_level = 0
    /\ nproc = 0
    /\ todo = <<>>
    /\ batch_cmd = [bound |-> FALSE, runs |-> <<>>]
    /\ cur_batch_size = 0
    /\ batch_total_time = 0
    /\ dep_job_id_list = <<>>
    /\ cases_list = <<>>
    /\ cur_batch_id = 0
    /\ tot_job_id_list = <<>>
    /\ submitted = <<>>
    /\ filter_level = NoLevel
    /\ filter_n_procs = 0
    /\ slurm_batch = TRUE
    /\ mem_log = FALSE
    /\ compare_nodes = [c \in DOMAIN cs |-> NoCompare]
    /\ exit_code = [c \in DOMAIN cs |-> 0]
    /\ inferred = inf
    /\ dep_dir = dir
    /\ opt_n_procs = opt
    /\ resource_config = rc
    /\ run_conf = conf
    /\ no_restart = [c \in DOMAIN cs |-> FALSE]
    /\ built = 0
    /\ ran = <<>>
    /\ log = <<>>
    /\ sub_graph = [nodes |-> <<>>, dep |-> [c \in DOMAIN cs |-> NoNode],
                    max_level |-> 0, max_proc |-> 0]
    /\ ret = NoCall
    /\ api_calls = 0

\* The same without --rm, parametric arguments and run folders
InitCases(cs, cmd, inf, dir, opt, rc, conf) ==
    InitCasesR(cs, cmd, inf, dir, opt, rc, conf, FALSE,
               [c \in DOMAIN cs |-> <<>>], NoRuns(cs), {})

\* Construction of the cases: any command selection, a dependency given
\* in the file or not, any inferred dependency and state of its run folder;
\* n_procs and expected_time given in the file.
InitConstruct ==
    \E n \in 0..ConsCases :
      \E d \in DepMaps(n, [i \in 1..n |-> i]) :
        \E inf \in DepMaps(n, [i \in 1..n |-> i]) :
          \E dir \in [1..n -> DirStates] :
            \E cmd \in [{"compute", "compare", "post"} -> BOOLEAN] :
              LET cs == [i \in 1..n |->
                          [key |-> i, depends |-> d[i], n_procs |-> 1,
                           expected_time |-> DefaultExpTime,
                           data_depends |-> d[i], data_n_procs |-> 1,
                           data_expected_time |-> DefaultExpTime,
                           tags |-> <<>>]]
              IN  InitCases(cs, cmd, inf, dir, NoValue, DefaultResource,
                            [c \in 1..n |-> NoConf])

\* parametric arguments of a case: none, arguments without restart, a
\* restart with -r or --restart naming a run of the case or of another
\* case, both tags, a tag without value
Params ==
    { <<>>, <<"-m", "mesh">>, <<"-r", "run1">>, <<"--restart", "run2">>,
      <<"-r", "../../CASE2/RESU/run1">>, <<"-m", "mesh", "-r", "run1">>,
      <<"-r", "run1", "--restart", "run2">>,
      <<"--restart", "run2", "-r", "run1">>, <<"-r">> }

\* Construction of one or two cases, the last one with any dependency given
\* in the file or not, any restart path in setup.xml, any parametric
\* arguments and any state of the run folder looked at; any command
\* selection.
InitParam ==
    \E n \in 1..ConsCases :
      \E d, inf \in 0..(n+1) :
        \E dir \in DirStates :
          \E par \in Params :
            \E cmd \in [{"compute", "compare", "post"} -> BOOLEAN] :
              LET cs == [i \in 1..n |->
                          [key |-> i, depends |-> IF i = n THEN d ELSE NoKey,
                           n_procs |-> 1, expected_time |-> DefaultExpTime,
                           data_depends |-> IF i = n THEN d ELSE NoKey,
                           data_n_procs |-> 1,
                           data_expected_time |-> DefaultExpTime,
                           tags |-> <<>>]]
              IN  InitCasesR(cs, cmd,
                             [i \in 1..n |-> IF i = n THEN inf ELSE NoKey],
                             [i \in 1..n |-> IF i = n THEN dir ELSE "absent"],
                             NoValue, DefaultResource, [c \in 1..n |-> NoConf],
                             FALSE, [i \in 1..n |-> IF i = n THEN par ELSE <<>>],
                             NoRuns(cs), {})

\* the states of the run folders met by the runs with the --rm option
RmStates == {"absent", "FAILED", "FINALIZED"}

\* State before the construction of n cases with the keys k, run with the
\* compute command: restart paths inf in setup.xml, run folders resu in
\* the destination, option --rm or not, staging of the cases of fails
\* failing. The run folder a case looks at is the one of its restart path.
InitRmOf(n, k, inf, resu, rm, fails) ==
    LET cs == [i \in 1..n |->
                [key |-> k[i], depends |-> NoKey, n_procs |-> 1,
                 expected_time |-> DefaultExpTime,
                 data_depends |-> NoKey, data_n_procs |-> 1,
                 data_expected_time |-> DefaultExpTime, tags |-> <<>>]]
        dir == [i \in 1..n |-> IF inf[i] = NoKey THEN "absent" ELSE resu[inf[i]]]
        cmd == [x \in {"compute", "compare", "post"} |-> x = "compute"]
    IN  InitCasesR(cs, cmd, inf, dir, NoValue, DefaultResource,
                   [c \in 1..n |-> NoConf], rm, [c \in 1..n |-> <<>>], resu, fails)

\* Runs with or without --rm: up to two cases with any keys, restart paths
\* and run folders, or three cases without restart path
InitRm ==
    \/ \E n \in 0..(RmCases - 1) :
         \E k \in [1..n -> 1..(n+1)] :
           \E inf \in [1..n -> 0..(n+1)] :
             \E resu \in [1..(n+1) -> RmStates] :
               \E rm \in BOOLEAN :
                 \E fails \in SUBSET (1..n) :
                   InitRmOf(n, k, inf, resu, rm, fails)
    \/ \E k \in [1..RmCases -> 1..(RmCases+1)] :
         \E resu \in [1..(RmCases+1) -> {"absent", "FINALIZED"}] :
           \E rm \in BOOLEAN :
             InitRmOf(RmCases, k, [i \in 1..RmCases |-> NoKey], resu, rm, {})

\* decimal digits of a natural number, as str() writes them
RECURSIVE dec(_)
dec(k) ==
    IF k < 10 THEN <<DigitChars[k + 1]>>
    ELSE Append(dec(k \div 10), DigitChars[(k % 10) + 1])

\* h hours and m minutes written HH:MM, the hours on two digits at least
\* when pad
HHMM(h, m, pad) ==
    (IF pad /\ h < 10 THEN <<"0">> ELSE <<>>) \o dec(h)
      \o <<":">> \o <<DigitChars[(m \div 10) + 1], DigitChars[(m % 10) + 1]>>

\* the sections of run.cfg that the runs give or not, in a fixed order; the
\* section number i gives n_procs = i + 1 when it gives one
SectionList ==
    << <<"res", "run_id">>, <<"res", "t1">>, <<"res", "">>,
       <<"bat", "">>, <<"job_defaults", "">> >>

SectionProcs(name) == 1 + CHOOSE i \in 1..Len(SectionList) : SectionList[i] = name

\* the one case of a configuration run, n_procs dn and expected_time dt in
\* the parameter file (NoValue: not given), with tags tgs
ConfigCase(dn, dt, tgs) ==
    [i \in 1..1 |->
       [key |-> 1, depends |-> NoKey, n_procs |-> NoValue,
        expected_time |-> NoValue, data_depends |-> NoKey,
        data_n_procs |-> dn, data_expected_time |-> dt, tags |-> tgs]]

\* Resolution of n_procs: one case, with or without n_procs and expected
\* time in the parameter file, n_procs on the command line or not, a
\* resource name or not, a batch system or not, run.cfg absent or with any
\* of the sections of SectionList, each giving n_procs or not, all of them
\* with a job_header giving 9 processes or none.
InitSections ==
    \E have \in [1..Len(SectionList) -> {"absent", "empty", "n_procs"}] :
      \E file, hdr, bat \in BOOLEAN :
        \E rname \in {NoName, "res"} :
          \E tgs \in {<<>>, <<"t1">>} :
            \E dn \in {NoValue, 10} :
              \E dt \in {NoValue, 7} :
                \E opt \in {NoValue, 11} :
                  LET names == {SectionList[i] : i \in {j \in 1..Len(SectionList) :
                                                         have[j] # "absent"}}
                      given(name) == have[SectionProcs(name) - 1] = "n_procs"
                      secs == [name \in names |->
                                [n_procs |-> IF given(name) THEN SectionProcs(name)
                                             ELSE NoValue,
                                 job_header |-> IF hdr THEN 9 ELSE NoValue,
                                 expected_time |-> NoStr]]
                      rc == [resource_name |-> rname,
                             batch_name |-> IF bat THEN "bat" ELSE NoName,
                             batch |-> bat, resource_n_procs |-> 1,
                             resource_exp_time |-> DefaultExpTime]
                  IN  /\ file \/ \A j \in 1..Len(SectionList) : have[j] = "absent"
                      /\ InitCases(ConfigCase(dn, dt, tgs),
                                   [f \in {"compute", "compare", "post"} |-> f = "compute"],
                                   [c \in 1..1 |-> NoKey], [c \in 1..1 |-> "absent"],
                                   opt, rc,
                                   [c \in 1..1 |-> [file |-> file, sections |-> secs]])

\* Resolution of expected_time: one case without expected time in the
\* parameter file, run.cfg with one section of the resource, for the run_id
\* or not, that gives any time written HH:MM.
InitTimes ==
    \E h \in 0..MaxHours :
      \E m \in 0..59 :
        \E pad \in BOOLEAN :
          \E name \in {<<"res", "">>, <<"res", "run_id">>} :
            \E dn \in {NoValue, 10} :
              LET secs == [x \in {name} |->
                            [n_procs |-> 2, job_header |-> NoValue,
                             expected_time |-> HHMM(h, m, pad)]]
                  rc == [resource_name |-> "res", batch_name |-> NoName,
                         batch |-> FALSE, resource_n_procs |-> 1,
                         resource_exp_time |-> DefaultExpTime]
              IN  InitCases(ConfigCase(dn, NoValue, <<>>),
                            [f \in {"compute", "compare", "post"} |-> f = "compute"],
                            [c \in 1..1 |-> NoKey], [c \in 1..1 |-> "absent"],
                            NoValue, rc,
                            [c \in 1..1 |-> [file |-> TRUE, sections |-> secs]])

\* Resolution of expected_time among the sections: one case without
\* expected time in the parameter file, a resource name or not, a batch
\* system or not, run.cfg with any of the sections of SectionList, the
\* section number i giving an expected_time of i minutes or none.
InitSectionTimes ==
    \E have \in [1..Len(SectionList) -> {"absent", "empty", "time"}] :
      \E bat \in BOOLEAN :
        \E rname \in {NoName, "res"} :
          \E tgs \in {<<>>, <<"t1">>} :
            LET names == {SectionList[i] : i \in {j \in 1..Len(SectionList) :
                                                   have[j] # "absent"}}
                rank(name) == SectionProcs(name) - 1
                secs == [name \in names |->
                          [n_procs |-> 2, job_header |-> NoValue,
                           expected_time |-> IF have[rank(name)] = "time"
                                             THEN HHMM(0, rank(name), TRUE)
                                             ELSE NoStr]]
                rc == [resource_name |-> rname,
                       batch_name |-> IF bat THEN "bat" ELSE NoName,
                       batch |-> bat, resource_n_procs |-> 1,
                       resource_exp_time |-> DefaultExpTime]
            IN  InitCases(ConfigCase(NoValue, NoValue, tgs),
                          [f \in {"compute", "compare", "post"} |-> f = "compute"],
                          [c \in 1..1 |-> NoKey], [c \in 1..1 |-> "absent"],
                          NoValue, rc,
                          [c \in 1..1 |-> [file |-> TRUE, sections |-> secs]])

InitConfig == InitSections \/ InitTimes \/ InitSectionTimes

\* Direct runs: independent cases, compute selected, any selection of
\* compare and post, any staging failures, any exit codes, memory log or
\* not.
InitDirect ==
    \E n \in 0..RunCases :
      \E fails \in SUBSET (1..n) :
        \E codes \in [1..n -> 0..MaxExit] :
          \E ml, cmp, post \in BOOLEAN :
            LET cs == CaseList(n, [i \in 1..n |-> i], [i \in 1..n |-> NoKey],
                               [i \in 1..n |-> 1], [i \in 1..n |-> DefaultExpTime])
            IN  /\ cases = cs
                /\ n_study = 1
                /\ smgr_cmd = [compute |-> TRUE, compare |-> cmp, post |-> post,
                               sheet |-> FALSE, state |-> FALSE]
                /\ slurm_batch_size = DefaultBatchSize
                /\ slurm_batch_wtime = DefaultWTime
                /\ stage = StageOf(1..n, fails)
                /\ sbatch_fail = 0
                /\ compute = [c \in 1..n |-> TRUE]
                /\ compare = [c \in 1..n |-> cmp]
                /\ plot = [c \in 1..n |-> post]
                /\ is_compiled = [c \in 1..n |-> "not done"]
                /\ level = [c \in 1..n |-> NoLevel]
                /\ job_id = [c \in 1..n |-> NoJob]
                /\ global_graph = [nodes |-> <<>>, dep |-> [c \in 1..n |-> NoNode],
                                   max_level |-> 0, max_proc |-> 0]
                /\ next_case = 0
                /\ msg = FALSE
                /\ graph = [nodes |-> <<>>, dep |-> [c \in 1..n |-> NoNode],
                            max_level |-> 0, max_proc |-> 0]
                /\ pc = "dump_graph"
                /\ error = ""
                /\ loop_level = 0
                /\ nproc = 0
                /\ todo = <<>>
                /\ batch_cmd = [bound |-> FALSE, runs |-> <<>>]
                /\ cur_batch_size = 0
                /\ batch_total_time = 0
                /\ dep_job_id_list = <<>>
                /\ cases_list = <<>>
                /\ cur_batch_id = 0
                /\ tot_job_id_list = <<>>
                /\ submitted = <<>>
                /\ filter_level = NoLevel
                /\ filter_n_procs = 0
                /\ slurm_batch = FALSE
                /\ mem_log = ml
                /\ force_rm = FALSE
                /\ parametric = [c \in 1..n |-> <<>>]
                /\ dest_resu = NoRuns(cs)
                /\ compare_nodes = [c \in 1..n |-> NoCompare]
                /\ exit_code = codes
                /\ inferred = [c \in 1..n |-> NoKey]
                /\ dep_dir = [c \in 1..n |-> "absent"]
                /\ opt_n_procs = NoValue
                /\ resource_config = DefaultResource
                /\ run_conf = [c \in 1..n |-> NoConf]
                /\ no_restart = [c \in 1..n |-> FALSE]
                /\ built = n
                /\ ran = <<>>
                /\ log = <<>>
                /\ sub_graph = [nodes |-> <<>>, dep |-> [c \in 1..n |-> NoNode],
                                max_level |-> 0, max_proc |-> 0]
                /\ ret = NoCall
                /\ api_calls = 0

\* Graph construction with the filters of the command line: any keys,
\* dependencies and process counts, any filter.
InitFilter ==
    \E n \in 0..GraphCases :
      \E k \in KeyMaps(n) :
        \E d \in DepMaps(n, k) :
          \E p \in [1..n -> 1..MaxProc] :
            \E fl \in {NoLevel} \cup (0..GraphCases) :
              \E fp \in 0..MaxProc :
                LET cs == CaseList(n, k, d, p, [i \in 1..n |-> DefaultExpTime])
                IN  /\ InitCore(cs, {}, 0, DefaultBatchSize, DefaultWTime, 1)
                    /\ InitExtF(cs, fl, fp)

\* Staging runs: independent cases with or without sub domains, any return
\* codes of the staging commands, run_status.prepared present or not.
InitStage ==
    \E n \in 0..StageCases :
      \E st \in [1..n -> Stages] :
        LET cs == CaseList(n, [i \in 1..n |-> i], [i \in 1..n |-> NoKey],
                           [i \in 1..n |-> 1], [i \in 1..n |-> DefaultExpTime])
        IN  /\ InitCoreS(cs, st, 0, DefaultBatchSize, DefaultWTime, 1)
            /\ InitExt(cs)

\* Dispatch of the cases, in batch mode or with direct runs: any keys,
\* dependencies and process counts, any staging failures, the level filter
\* of the command line absent or 1, batch size by default or not.
InitDispatch ==
    \E n \in 0..DispCases :
      \E k \in KeyMaps(n) :
        \E d \in DepMaps(n, k) :
          \E p \in [1..n -> 1..MaxProc] :
            \E fails \in SUBSET (1..n) :
              \E fl \in {NoLevel, 1} :
                \E sb \in BOOLEAN :
                  \E size \in {DefaultBatchSize, MaxSize} :
                    LET cs == CaseList(n, k, d, p, [i \in 1..n |-> DefaultExpTime])
                    IN  /\ InitCore(cs, fails, 0, size, DefaultWTime, 1)
                        /\ InitExtM(cs, fl, 0, sb)

\* the RESU directories that the runs of check_compare meet: missing,
\* empty, with one run or with two, run r2 with or without a valid result
Dirs ==
    {NoDir, [exists |-> TRUE, runs |-> <<>>, ok |-> {}],
     [exists |-> TRUE, runs |-> <<"run1">>, ok |-> {"run1"}],
     [exists |-> TRUE, runs |-> <<"r2">>, ok |-> {"r2"}],
     [exists |-> TRUE, runs |-> <<"r2">>, ok |-> {}],
     [exists |-> TRUE, runs |-> <<"r2", "run1">>, ok |-> {"r2", "run1"}]}

\* the compare markups of these runs: one markup, on or off, repository
\* and destination not given, to be found ("") or named r2
Markups ==
    [status : BOOLEAN, has_repo : BOOLEAN, repo : {"", "r2"},
     has_dest : BOOLEAN, dest : {"", "r2"}]

\* Runs of check_compare: independent cases, compare selected; the first
\* case with any run_id, directories and markup, the other ones with a
\* markup on the repository alone, which is missing or holds the run.
InitCompare ==
    \E n \in 1..CmpCases :
      \E rid \in {"run1", "r2"} :
        \E rd, dd \in Dirs :
          \E m \in Markups :
            \E od \in [2..n -> {NoDir, [exists |-> TRUE, runs |-> <<"run1">>,
                                         ok |-> {"run1"}]}] :
              LET cs == CaseList(n, [i \in 1..n |-> i], [i \in 1..n |-> NoKey],
                                 [i \in 1..n |-> 1], [i \in 1..n |-> DefaultExpTime])
                  cn == [c \in 1..n |->
                           IF c = 1
                           THEN [run_id |-> rid, repo_dir |-> rd, dest_dir |-> dd,
                                 markups |-> <<m>>]
                           ELSE [run_id |-> "run1", repo_dir |-> od[c],
                                 dest_dir |-> NoDir,
                                 markups |-> <<[status |-> TRUE, has_repo |-> TRUE,
                                                repo |-> "", has_dest |-> FALSE,
                                                dest |-> ""]>>]]
              IN  /\ (~m.has_repo => m.repo = "") /\ (~m.has_dest => m.dest = "")
                  /\ InitCoreC(cs, StageOf(1..n, {}), 0, DefaultBatchSize,
                               DefaultWTime, 1, TRUE)
                  /\ InitExtC(cs, NoLevel, 0, FALSE, cn)

\* Batch runs where an sbatch call may fail (sbatch returns non-zero, or
\* prints no 8-digit job identifier): distinct keys, any dependencies and
\* process counts, the failing call being any of the run or none.
InitSbatch ==
    \E n \in 0..MaxCases :
      \E d \in DepMaps(n, [i \in 1..n |-> i]) :
        \E p \in [1..n -> 1..MaxProc] :
          \E sbfail \in 0..(n + 1) :
            InitRun(CaseList(n, [i \in 1..n |-> i], d, p,
                             [i \in 1..n |-> DefaultExpTime]),
                    {}, sbfail, DefaultBatchSize, DefaultWTime, 1)

\* Runs of check_slurm_batches: many cases on one process, without
\* dependency or all depending on the first one, the last ones with an
\* expected time of ShortTime and the others below; the level filter of the
\* command line absent, 0 or 1; batch size by default or not.
InitTune ==
    \E n \in (TuneCases - 3)..TuneCases :
      \E star \in BOOLEAN :
        \E long \in 0..TuneLong :
          \E fl \in {NoLevel, 0, 1} :
            \E size \in {DefaultBatchSize, MaxSize} :
              LET cs == CaseList(n, [i \in 1..n |-> i],
                                 [i \in 1..n |-> IF star /\ i > 1 THEN 1 ELSE NoKey],
                                 [i \in 1..n |-> 1],
                                 [i \in 1..n |-> IF i > n - long THEN ShortTime
                                                 ELSE ShortTime - 1])
              IN  /\ InitCore(cs, {}, 0, size, DefaultWTime, 1)
                  /\ InitExtF(cs, fl, 0)

Next ==
    \/ AddNodeStep
    \/ DumpGraphEnd
    \/ CreateStudies
    \/ RunSlurmBegin
    \/ CellBegin
    \/ CaseStep
    \/ CellEnd
    \/ FinalBatch

NextGraph == AddNodeStep

NextFilter ==
    \/ AddNodeStep
    \/ DumpGraphEnd

NextStage ==
    \/ AddNodeStep
    \/ DumpGraphEnd
    \/ CreateStudies

NextTune ==
    \/ AddNodeStep
    \/ DumpGraphEnd
    \/ CheckSlurmBatches

NextConstruct ==
    \/ CaseInit
    \/ ConstructEnd
    \/ AddNodeStep

NextRm ==
    \/ CaseInit
    \/ ConstructEnd
    \/ AddNodeStep
    \/ DumpGraphEnd
    \/ CreateStudies

NextDirect ==
    \/ AddNodeStep
    \/ DumpGraphEnd
    \/ CreateStudies
    \/ RunBegin
    \/ RunCaseStep
    \/ RunEnd

NextDispatch ==
    \/ AddNodeStep
    \/ DumpGraphEnd
    \/ CreateStudies
    \/ RunBegin
    \/ RunCaseStep
    \/ RunEnd
    \/ RunSlurmBegin
    \/ CellBegin
    \/ CaseStep
    \/ CellEnd
    \/ FinalBatch

NextCompare ==
    \/ AddNodeStep
    \/ DumpGraphEnd
    \/ CheckCompare

NextApi ==
    \/ AddNodeStep
    \/ AddDependencyCall
    \/ ReAddNode
    \/ ExtractCall

Spec == Init /\ [][Next]_vars

SpecDup == InitDup /\ [][Next]_vars

SpecPack == InitPack /\ [][Next]_vars

SpecGraph == InitGraph /\ [][NextGraph]_vars

SpecApi == InitGraph /\ [][NextApi]_vars

SpecFilter == InitFilter /\ [][NextFilter]_vars

SpecConstruct == InitConstruct /\ [][NextConstruct]_vars

SpecParam == InitParam /\ [][NextConstruct]_vars

SpecRm == InitRm /\ [][NextRm]_vars

SpecRun == InitDirect /\ [][NextDirect]_vars

SpecStage == InitStage /\ [][NextStage]_vars

SpecSbatch == InitSbatch /\ [][Next]_vars

SpecTune == InitTune /\ [][NextTune]_vars

SpecConfig == InitConfig /\ [][NextConstruct]_vars

SpecDispatch == InitDispatch /\ [][NextDispatch]_vars

SpecCompare == InitCompare /\ [][NextCompare]_vars

TypeOK ==
    /\ pc \in {"construct", "dump_graph", "create_studies", "run", "run_loop",
               "run_slurm", "cell", "loop", "final", "done", "checked",
               "compared"}
    /\ \A c \in Ids : level[c] >= NoLevel /\ job_id[c] >= NoJob

\* ------------------------------------------------------------------------
\* Properties
\* ------------------------------------------------------------------------

\* the compute batches submitted so far (all but the final batch)
ComputeBatches == {i \in 1..Len(submitted) : ~submitted[i].final}

BatchCases(i) == SeqSet(submitted[i].cases)

BatchesOf(c) == {i \in ComputeBatches : c \in BatchCases(i)}

RECURSIVE SumTime(_)
SumTime(s) ==
    IF s = <<>> THEN 0 ELSE cases[Head(s)].expected_time + SumTime(Tail(s))

NoDup(s) == \A i, j \in 1..Len(s) : s[i] = s[j] => i = j

\* number of dependency links from a case down to a case without one
RECURSIVE Depth(_)
Depth(c) == IF graph.dep[c] = NoNode THEN 0 ELSE 1 + Depth(graph.dep[c])

\* run_slurm_batches has returned or has raised an exception of its own
RunOver ==
    \/ pc = "done"
    \/ /\ pc \in {"run_slurm", "cell", "loop", "final"}
       /\ error \notin {"", "CalledProcessError"}

\* C1: for every case B of a submitted batch with a recorded dependency on
\* case A, no batch containing A is submitted after B's batch, and a batch
\* containing A (hence A's job token) was submitted before B's batch.
C1_ParentBatchesFirst ==
    \A i \in ComputeBatches :
      \A B \in BatchCases(i) :
        LET A == graph.dep[B]
        IN  A # NoNode =>
              /\ \A j \in BatchesOf(A) : j <= i
              /\ \E j \in BatchesOf(A) : j < i

\* C2: the cases of a compute batch have the same n_procs and the same
\* dependency level, and ntasks of the submission is that n_procs.
C2_BatchHomogeneous ==
    \A i \in ComputeBatches :
      \A c, d \in BatchCases(i) :
        /\ cases[c].n_procs = cases[d].n_procs
        /\ Depth(c) = Depth(d)
        /\ submitted[i].ntasks = cases[c].n_procs

\* C3 as stated: no compute batch has a summed expected_time above the
\* wall time budget.
C3_NoBatchOverWTime ==
    \A i \in ComputeBatches :
      SumTime(submitted[i].cases) <= slurm_batch_wtime

\* C3: no compute batch has a summed expected_time above the wall time
\* budget, except a batch made of one case whose own expected_time is
\* above the budget.
C3_OnlySingleCaseOverWTime ==
    \A i \in ComputeBatches :
      \/ SumTime(submitted[i].cases) <= slurm_batch_wtime
      \/ /\ Len(submitted[i].cases) = 1
         /\ cases[submitted[i].cases[1]].expected_time > slurm_batch_wtime

\* a batch of several cases closed because the next case did not fit in
\* the wall time, and a batch of one case above the wall time
C3_Witness ==
    /\ \E i \in ComputeBatches :
         /\ i + 1 \in ComputeBatches
         /\ Len(submitted[i].cases) >= 2
         /\ Len(submitted[i].cases) < slurm_batch_size
         /\ SumTime(submitted[i].cases)
              + cases[submitted[i+1].cases[1]].expected_time >= slurm_batch_wtime
    /\ \E j \in ComputeBatches :
         SumTime(submitted[j].cases) > slurm_batch_wtime

\* C4: no compute batch has more cases than the batch size, the batch
\* started by the case that did not fit in the previous one included.
C4_BatchSizeBound ==
    \A i \in ComputeBatches :
      Len(submitted[i].cases) <= slurm_batch_size

\* a batch closed on the wall time before it was full, followed by a batch
\* that reached the batch size
C4_Witness ==
    \E i \in ComputeBatches :
      /\ i + 1 \in ComputeBatches
      /\ Len(submitted[i].cases) < slurm_batch_size
      /\ SumTime(submitted[i].cases) < slurm_batch_wtime
      /\ Len(submitted[i+1].cases) = slurm_batch_size
      /\ slurm_batch_size >= 2

\* the packing of a sequence of cases where a case joins the current batch
\* unless the batch would then have more cases than the batch size or a
\* summed expected_time above the wall time
RECURSIVE GreedyPacking(_, _, _)
GreedyPacking(s, cur, done) ==
    IF s = <<>>
    THEN IF cur = <<>> THEN done ELSE Append(done, cur)
    ELSE LET c == Head(s)
             exceeds == \/ Len(cur) + 1 > slurm_batch_size
                        \/ SumTime(cur) + cases[c].expected_time > slurm_batch_wtime
         IN  IF cur # <<>> /\ exceeds
             THEN GreedyPacking(Tail(s), <<c>>, Append(done, cur))
             ELSE GreedyPacking(Tail(s), Append(cur, c), done)

\* C5: the compute batches of a cell are the greedy packing of its cases,
\* a batch whose summed expected_time equals the wall time being allowed.
\* (All the cases of the graph are in one cell here.)
C5_GreedyPacking ==
    (pc = "done" /\ \A c \in SeqSet(graph.nodes) :
                      level[c] = 0 /\ cases[c].n_procs = graph.max_proc)
      => [i \in 1..(Len(submitted) - 1) |-> submitted[i].cases]
           = GreedyPacking(graph.nodes, <<>>, <<>>)

\* C6: the dependency list of a batch at level > 0 has no duplicate, each
\* entry is the job token returned by an earlier submission of a batch
\* holding a parent of one of its cases, and every parent has a token in it.
C6_DepsAreParentTokens ==
    \A i \in ComputeBatches :
      submitted[i].level > 0 =>
        /\ NoDup(submitted[i].deps)
        /\ \A t \in SeqSet(submitted[i].deps) :
             \E j \in ComputeBatches :
               /\ j < i
               /\ submitted[j].job = t
               /\ \E c \in BatchCases(i) : graph.dep[c] \in BatchCases(j)
        /\ \A c \in BatchCases(i) :
             graph.dep[c] # NoNode =>
               \E j \in BatchesOf(graph.dep[c]) :
                 j < i /\ InSeq(submitted[j].job, submitted[i].deps)

\* C7: a case in no submitted batch has no job_id; the job_id of a case is
\* the token of every batch that holds it, and of no other batch.
C7_StampedOnce ==
    \A c \in Ids :
      /\ BatchesOf(c) = {} => job_id[c] = NoJob
      /\ \A i \in ComputeBatches :
           c \in BatchCases(i) <=> job_id[c] = submitted[i].job

\* C8: the final batch is submitted last and once run_slurm_batches is
\* over it has been submitted, depends on the tokens of all the compute
\* batches and asks for 10 minutes per study.
C8_OneFinalBatch ==
    /\ \A i \in 1..Len(submitted) :
         submitted[i].final => i = Len(submitted) /\ pc = "done"
    /\ RunOver =>
         /\ Len(submitted) >= 1
         /\ submitted[Len(submitted)].final
         /\ SeqSet(submitted[Len(submitted)].deps)
              = {submitted[j].job : j \in ComputeBatches}
         /\ NoDup(submitted[Len(submitted)].deps)
         /\ submitted[Len(submitted)].hh * 60 + submitted[Len(submitted)].mm
              = 10 * n_study

\* the nodes added so far form a chain: pairwise distinct keys, the first
\* without depends, each other one naming the key of its predecessor
Chain ==
    LET s == global_graph.nodes
    IN  /\ Len(s) >= 1
        /\ \A i, j \in 1..Len(s) : cases[s[i]].key = cases[s[j]].key => i = j
        /\ cases[s[1]].depends = NoKey
        /\ \A i \in 2..Len(s) : cases[s[i]].depends = cases[s[i-1]].key

\* C9: when the cases added to the empty graph form a chain, the level of
\* the i-th case is i-1 and max_level is the length of the chain minus one.
C9_ChainLevels ==
    Chain =>
      /\ \A i \in 1..Len(global_graph.nodes) : level[global_graph.nodes[i]] = i - 1
      /\ global_graph.max_level = Len(global_graph.nodes) - 1

\* the chain A, B, C has been added
C9_Witness ==
    /\ Chain
    /\ Len(global_graph.nodes) = 3
    /\ next_case = 3

\* C10: add_node of a case whose depends matches no node already in the
\* graph raises nothing, gives the case level 0, returns a warning and
\* leaves the case among the nodes.
C10_UnresolvedDependsIsLevel0 ==
    [][ LET case == next_case + 1
        IN  ( /\ pc = "dump_graph"
              /\ error = ""
              /\ next_case < Len(cases)
              /\ next_case' = case
              /\ cases[case].depends # NoKey
              /\ FirstMatch(global_graph.nodes, cases[case].depends) = NoNode )
            => ( /\ error' = ""
                 /\ level'[case] = 0
                 /\ msg' = TRUE
                 /\ InSeq(case, nodes(global_graph')) ) ]_vars

\* largest element of a finite set of integers, 0 for the empty set
SetMax(S) == IF S = {} THEN 0 ELSE CHOOSE x \in S : \A y \in S : y <= x

\* a direct call of op is the step taken
Called(op) == api_calls' = api_calls + 1 /\ ret'.op = op

\* C11: add_dependency for a case that already has a dependency returns an
\* error and leaves the graph (edges, nodes, max_level, max_proc) unchanged.
C11_SecondDependencyRejected ==
    [][ (Called("add_dependency") /\ global_graph.dep[ret'.args[1]] # NoNode)
          => (ret'.msg = TRUE /\ global_graph' = global_graph) ]_vars

\* add_dependency was called for a case with a dependency and returned an
\* error
C11_Witness ==
    /\ ret.op = "add_dependency"
    /\ ret.msg = TRUE
    /\ global_graph.dep[ret.args[1]] # NoNode

\* C12: in a graph built by add_node calls, max_level is the largest level
\* of the nodes and max_proc the largest n_procs (0 for the empty graph).
C12_MaxLevelMaxProc ==
    /\ global_graph.max_level
         = SetMax({level[c] : c \in SeqSet(nodes(global_graph))})
    /\ global_graph.max_proc
         = SetMax({cases[c].n_procs : c \in SeqSet(nodes(global_graph))})

C14_OrphanIsLevel0 ==
    [][ Called("extract_sub_graph") =>
          \A c \in SeqSet(nodes(sub_graph')) :
            (global_graph.dep[c] # NoNode
               /\ ~is_node(sub_graph', global_graph.dep[c]))
              => (sub_graph'.dep[c] = NoNode /\ level'[c] = 0) ]_vars

\* C15: the graph returned by extract_sub_graph has max_level equal to the
\* largest level of its nodes and max_proc equal to their largest n_procs.
C15_SubGraphMaxima ==
    (ret.op = "extract_sub_graph" /\ error = "") =>
      /\ sub_graph.max_level
           = SetMax({level[c] : c \in SeqSet(nodes(sub_graph))})
      /\ sub_graph.max_proc
           = SetMax({cases[c].n_procs : c \in SeqSet(nodes(sub_graph))})

\* C16: add_node of a case that is a node of the graph changes nothing
\* (nodes and their order, edges, levels, max_level, max_proc) and returns
\* no warning.
C16_ReAddIsNoOp ==
    [][ Called("add_node") =>
          /\ global_graph' = global_graph
          /\ level' = level
          /\ ret'.msg = FALSE ]_vars

\* add_node was called on a node that has a dependency
C16_Witness ==
    /\ ret.op = "add_node"
    /\ global_graph.dep[ret.args[1]] # NoNode

\* the case was constructed without depends in the parameter file and
\* with an inferred dependency
Inferred(c) ==
    /\ c <= built
    /\ cases[c].data_depends = NoKey
    /\ inferred[c] # NoKey

\* the flags of the case are the ones of the command selection
FlagsAsSelected(c) ==
    /\ compute[c] = smgr_cmd.compute
    /\ compare[c] = smgr_cmd.compare
    /\ plot[c] = smgr_cmd.post
    /\ no_restart[c] = FALSE

\* C17: a constructed case whose inferred dependency has a run folder that
\* is not FINALIZED keeps the dependency and has no_restart set, compute,
\* compare and plot cleared; when there is no run folder the dependency is
\* kept and the flags are the ones of the command selection.
C17_RestartDefense ==
    \A c \in Ids :
      Inferred(c) =>
        /\ dep_dir[c] \notin {"absent", "FINALIZED"} =>
             /\ cases[c].depends = inferred[c]
             /\ no_restart[c] /\ ~compute[c] /\ ~compare[c] /\ ~plot[c]
        /\ dep_dir[c] = "absent" =>
             /\ cases[c].depends = inferred[c]
             /\ FlagsAsSelected(c)

\* all flags selected; a case was cancelled because of an unfinished run
\* and another kept its flags because the run folder is absent
C17_Witness ==
    /\ pc = "dump_graph"
    /\ smgr_cmd.compute /\ smgr_cmd.compare /\ smgr_cmd.post
    /\ \E c, d \in Ids :
         /\ Inferred(c) /\ dep_dir[c] = "RUNNING" /\ no_restart[c]
         /\ Inferred(d) /\ dep_dir[d] = "absent" /\ compute[d]

\* C18: a constructed case whose inferred dependency has a FINALIZED run
\* folder has no depends and the flags of the command selection; when it
\* is selected it joins the graph at level 0, without edge and warning.
C18_FinalizedDependencyDropped ==
    \A c \in Ids :
      (Inferred(c) /\ dep_dir[c] = "FINALIZED") =>
        /\ cases[c].depends = NoKey
        /\ FlagsAsSelected(c)
        /\ (next_case >= c /\ error = ""
              /\ (smgr_cmd.compute \/ smgr_cmd.compare \/ smgr_cmd.post)) =>
             /\ is_node(global_graph, c)
             /\ level[c] = 0
             /\ global_graph.dep[c] = NoNode
             /\ next_case = c => msg = FALSE

\* a case with a finalized inferred dependency is the node added last
C18_Witness ==
    \E c \in Ids :
      /\ Inferred(c) /\ dep_dir[c] = "FINALIZED"
      /\ next_case = c
      /\ is_node(global_graph, c)

\* the step is the direct run of the case
DirectRunOf(case) ==
    /\ pc = "run_loop"
    /\ todo # <<>>
    /\ Head(todo) = case
    /\ ran' = Append(ran, case)

\* the run of case leaves compute of all cases and compare, plot of the
\* other cases as they are
RunFrame(case) ==
    /\ compute' = compute
    /\ \A d \in Ids \ {case} : compare'[d] = compare[d] /\ plot'[d] = plot[d]

\* at the end of Studies.run every case of the graph with compute on was run
AllRun ==
    pc = "done" =>
      \A c \in SeqSet(nodes(graph)) :
        (compute[c] /\ is_compiled[c] # "KO") => InSeq(c, ran)

\* C19 as stated: the direct run of a case that returns a non-zero exit
\* code clears compare and plot of the case, changes no other flag, and
\* the other cases of the graph are still run.
C19_NonZeroExitClearsFlags ==
    /\ [][ \A case \in Ids :
             (DirectRunOf(case) /\ exit_code[case] # 0) =>
               (~compare'[case] /\ ~plot'[case] /\ RunFrame(case)) ]_vars
    /\ []AllRun

\* C19: the same for a non-zero exit code that is not the memory leak code
\* 2 alone while mem_log is on.
C19_FailedRunClearsFlags ==
    /\ [][ \A case \in Ids :
             (DirectRunOf(case) /\ exit_code[case] # 0
                /\ ~(mem_log /\ exit_code[case] = 2)) =>
               (~compare'[case] /\ ~plot'[case] /\ RunFrame(case)) ]_vars
    /\ []AllRun

\* a failed case lost compare and plot, a case run after it kept them
C19_Witness ==
    /\ pc = "done"
    /\ smgr_cmd.compare /\ smgr_cmd.post
    /\ \E i, j \in 1..Len(ran) :
         /\ i < j
         /\ exit_code[ran[i]] # 0 /\ ~compare[ran[i]] /\ ~plot[ran[i]]
         /\ compare[ran[j]] /\ plot[ran[j]]

\* C20: staging turns compute off for the cases whose staging fails without
\* run_status.prepared and changes no other flag; the other cases are run.
C20_StagingFailureIsLocal ==
    /\ [][ (pc = "create_studies" /\ pc' # pc) =>
             \A c \in Ids :
               /\ (c \in stage_fail /\ is_node(graph, c)) => ~compute'[c]
               /\ c \notin stage_fail => compute'[c] = compute[c]
               /\ compare'[c] = compare[c]
               /\ plot'[c] = plot[c] ]_vars
    /\ [](pc = "done" =>
            \A c \in SeqSet(nodes(graph)) :
              IF c \in stage_fail THEN ~InSeq(c, ran) ELSE InSeq(c, ran))

\* the staging of a case failed and another case was run
C20_Witness ==
    /\ pc = "done"
    /\ \E c, d \in SeqSet(nodes(graph)) :
         /\ c \in stage_fail /\ ~compute[c]
         /\ d \notin stage_fail /\ InSeq(d, ran)

\* the staging of the cases of the graph is done
Staged == pc \in {"run", "run_slurm"}

\* C21: a case of the graph whose run folder holds run_status.prepared
\* before the staging has its compute flag left as it was by the staging,
\* with or without sub domains.
C21_PreparedKeepsCompute ==
    [][ (pc = "create_studies" /\ pc' # pc) =>
          \A c \in SeqSet(nodes(graph)) :
            stage[c].prepared => compute'[c] = compute[c] ]_vars

\* C22: the staging of a case with sub domains fails (compute is turned
\* off) when the staging of a sub domain returned non-zero, and succeeds
\* when all returned 0.
C22_AnySubdomainFailureFails ==
    Staged =>
      \A c \in SeqSet(nodes(graph)) :
        (stage[c].coupled /\ ~stage[c].prepared) =>
          (compute[c] <=> \A i \in 1..Len(stage[c].codes) : stage[c].codes[i] = 0)

\* an sbatch call of the run has failed
SubmissionFailed == error = "CalledProcessError"

\* C23: after a failed submission the batches of the independent cases are
\* still submitted: the cases of level 0 that are to be computed and are in
\* no submitted batch are cases of the failed batch, at most
\* slurm_batch_size of them.
C23_FailedSubmissionIsLocal ==
    (SubmissionFailed /\ pc \in {"loop", "final"}) =>
      Cardinality({c \in SeqSet(nodes(graph)) :
                     /\ level[c] = 0
                     /\ compute[c] /\ is_compiled[c] # "KO"
                     /\ BatchesOf(c) = {}}) <= slurm_batch_size

\* the cases of the graph with an expected time under 5 minutes
ShortCases == {c \in SeqSet(nodes(graph)) : cases[c].expected_time < 5}

\* C24: check_slurm_batches sets a batch size of 1 to 50 when more than 50
\* cases of the graph have an expected time under 5 minutes, and leaves the
\* batch size as it is otherwise.
C24_AutoTune ==
    [][ (pc = "create_studies" /\ pc' = "checked") =>
          slurm_batch_size' = IF slurm_batch_size = 1 /\ Cardinality(ShortCases) > 50
                              THEN 50 ELSE slurm_batch_size ]_vars

\* the Case object of c is constructed
Constructed(c) == c <= built /\ error = ""

\* C25: n_procs of the command line, else n_procs of the parameter file,
\* and expected_time of the parameter file are the n_procs and
\* expected_time of the constructed case, whatever run.cfg and
\* resource_config hold.
C25_ExplicitDominates ==
    \A c \in Ids :
      Constructed(c) =>
        /\ opt_n_procs # NoValue => cases[c].n_procs = opt_n_procs
        /\ (opt_n_procs = NoValue /\ cases[c].data_n_procs # NoValue) =>
             cases[c].n_procs = cases[c].data_n_procs
        /\ cases[c].data_expected_time # NoValue =>
             cases[c].expected_time = cases[c].data_expected_time

\* n_procs of the parameter file was kept while run.cfg gives another one
\* in the section that is read, and expected_time came from resource_config
C25_Witness ==
    \E c \in Ids :
      /\ Constructed(c)
      /\ opt_n_procs = NoValue
      /\ cases[c].data_n_procs # NoValue
      /\ cases[c].data_expected_time = NoValue
      /\ run_conf[c].file
      /\ query_config(c).n_procs \notin {NoValue, cases[c].data_n_procs}
      /\ cases[c].n_procs = cases[c].data_n_procs
      /\ cases[c].expected_time = resource_config.resource_exp_time

\* a section of run.cfg that gives n_procs
GivesProcs(c, name) ==
    /\ name \in DOMAIN run_conf[c].sections
    /\ run_conf[c].sections[name].n_procs # NoValue

\* the sections of resource rn for the case, the most specific first: for
\* its run_id, for its tags, for the resource alone
SpecificFirst(c, rn) ==
    <<rid_section(rn)>>
      \o [i \in 1..Len(cases[c].tags) |-> <<rn, cases[c].tags[i]>>]
      \o << <<rn, "">> >>

\* n_procs is to be taken from the configuration and run.cfg exists
FromRunConf(c) ==
    /\ Constructed(c)
    /\ opt_n_procs = NoValue
    /\ cases[c].data_n_procs = NoValue
    /\ run_conf[c].file

\* C26 as stated, for a resource that has a section in run.cfg and without
\* batch system: n_procs of the case is the one of the first section that
\* gives n_procs among the sections of the resource, the most specific
\* first, then job_defaults, and the one of resource_config when none does.
C26_FirstDefinedSource ==
    \A c \in Ids :
      (/\ FromRunConf(c)
       /\ ~resource_config.batch
       /\ \E i \in 1..(Len(cases[c].tags) + 2) :
            SpecificFirst(c, resource_config.resource_name)[i]
              \in DOMAIN run_conf[c].sections) =>
        LET chain == SpecificFirst(c, resource_config.resource_name)
                       \o << <<"job_defaults", "">> >>
            hits  == {i \in 1..Len(chain) : GivesProcs(c, chain[i])}
        IN  cases[c].n_procs =
              IF hits = {} THEN resource_config.resource_n_procs
              ELSE run_conf[c].sections[
                     chain[CHOOSE i \in hits : \A j \in hits : i <= j]].n_procs

\* C26: one section is read, the most specific one that exists for the
\* resource name, else for the name of the batch system, else job_defaults;
\* n_procs of the case is the one this section gives, else the one of its
\* job_header with a batch system, else the one of job_defaults, else the
\* one of resource_config.
C26_MostSpecificSection ==
    \A c \in Ids :
      FromRunConf(c) =>
        LET secs == run_conf[c].sections
            Exists(rn) == /\ rn # NoName
                          /\ \E i \in 1..(Len(cases[c].tags) + 2) :
                               SpecificFirst(c, rn)[i] \in DOMAIN secs
            rn == IF Exists(resource_config.resource_name)
                  THEN resource_config.resource_name
                  ELSE IF Exists(resource_config.batch_name)
                  THEN resource_config.batch_name
                  ELSE "job_defaults"
            chain == SpecificFirst(c, rn)
            there == {i \in 1..Len(chain) : chain[i] \in DOMAIN secs}
            sel   == chain[CHOOSE i \in there : \A j \in there : i <= j]
        IN  cases[c].n_procs =
              IF there # {} /\ secs[sel].n_procs # NoValue
              THEN secs[sel].n_procs
              ELSE IF there # {} /\ resource_config.batch
                      /\ secs[sel].job_header # NoValue
              THEN secs[sel].job_header
              ELSE IF GivesProcs(c, <<"job_defaults", "">>)
              THEN secs[<<"job_defaults", "">>].n_procs
              ELSE resource_config.resource_n_procs

\* the section of the run_id exists without n_procs, the section of the
\* resource gives one, and n_procs of job_defaults was taken
C26_Witness ==
    \E c \in Ids :
      /\ FromRunConf(c)
      /\ resource_config.resource_name = "res"
      /\ ~resource_config.batch
      /\ <<"res", "run_id">> \in DOMAIN run_conf[c].sections
      /\ ~GivesProcs(c, <<"res", "run_id">>)
      /\ GivesProcs(c, <<"res", "">>)
      /\ GivesProcs(c, <<"job_defaults", "">>)
      /\ cases[c].n_procs = run_conf[c].sections[<<"job_defaults", "">>].n_procs

\* the times written HH:MM, with their hours and minutes
TimeTable ==
    [h \in 0..MaxHours, m \in 0..59, pad \in BOOLEAN |-> HHMM(h, m, pad)]

TimeStrings == {TimeTable[t] : t \in DOMAIN TimeTable}

\* hours * 60 + minutes of a time written HH:MM
Minutes ==
    [str \in TimeStrings |->
       LET t == CHOOSE x \in DOMAIN TimeTable : TimeTable[x] = str
       IN  t[1] * 60 + t[2]]

\* C27: an expected_time written HH:MM in the section read from run.cfg
\* gives hours * 60 + minutes as expected_time of the case.
C27_HHMMToMinutes ==
    \A c \in Ids :
      LET et == run_conf_get(run_conf[c].sections,
                             config_section(run_conf[c].sections, resource_config,
                                            cases[c].tags),
                             "expected_time")
      IN  (/\ c <= built
           /\ cases[c].data_expected_time = NoValue
           /\ run_conf[c].file
           /\ et \in TimeStrings) =>
            (error = "" /\ cases[c].expected_time = Minutes[et])

\* 10:59 read from run.cfg gave 659 minutes
C27_Witness ==
    \E c \in Ids :
      /\ Constructed(c)
      /\ run_conf[c].file
      /\ <<"res", "">> \in DOMAIN run_conf[c].sections
      /\ run_conf[c].sections[<<"res", "">>].expected_time = HHMM(10, 59, FALSE)
      /\ cases[c].expected_time = 659

\* the nodes of g have pairwise different composite keys
UniqueKeys(g) ==
    \A i, j \in 1..Len(nodes(g)) :
      i # j => cases[nodes(g)[i]].key # cases[nodes(g)[j]].key

\* C28: no two distinct nodes of global_graph or of self.graph have the same
\* composite key study/label/resu/run_id, whatever the cases of the
\* parameter file are.
C28_UniqueKeys == UniqueKeys(global_graph) /\ UniqueKeys(graph)

\* The loops "for level in range(self.graph.max_level + 1)" and "for nproc
\* in range(self.graph.max_proc)" from cell (l, p) on, with the levels lv
\* left by the cells before: seen[c] is the number of cells
\* extract_sub_graph(l, p) that hold the case c.
RECURSIVE cell_visits(_, _, _, _)
cell_visits(l, p, lv, seen) ==
    IF l > graph.max_level
    THEN seen
    ELSE IF p > graph.max_proc
    THEN cell_visits(l + 1, 1, lv, seen)
    ELSE LET r == extract_sub_graph(graph, lv, l, p)
         IN  cell_visits(l, p + 1, r.level,
                         [c \in Ids |-> IF InSeq(c, nodes(r.g))
                                        THEN seen[c] + 1 ELSE seen[c]])

\* self.graph is built and handed to the scheduler
GraphHandedOver == pc = "create_studies" /\ error = ""

\* C29: every node of self.graph, filtered or not, is in exactly one of the
\* cells extract_sub_graph(level, n_procs) for level in 0..max_level and
\* n_procs in 1..max_proc, and the cells hold no other case.
C29_CellsPartitionNodes ==
    GraphHandedOver =>
      LET seen == cell_visits(0, 1, level, [c \in Ids |-> 0])
      IN  \A c \in Ids : seen[c] = IF InSeq(c, nodes(graph)) THEN 1 ELSE 0

\* the case is a node of self.graph to be computed
ToDispatch(c) ==
    /\ InSeq(c, nodes(graph))
    /\ compute[c]
    /\ is_compiled[c] # "KO"

\* number of times the case c is in the sequence s
Count(c, s) == Cardinality({i \in 1..Len(s) : s[i] = c})

\* C30: when Studies.run is over every case of the graph with compute on
\* and a compilation that is not KO was run once and no other case was
\* run; when run_slurm_batches is over every such case is once in one
\* submitted batch and no other case is in a batch; a case with compute off
\* is never run and in no batch; no batch of cases is submitted empty.
C30_DispatchedOnce ==
    /\ (pc = "done" /\ ~slurm_batch) =>
         \A c \in Ids : Count(c, ran) = IF ToDispatch(c) THEN 1 ELSE 0
    /\ (pc = "done" /\ slurm_batch) =>
         \A c \in Ids :
           /\ Cardinality(BatchesOf(c)) = IF ToDispatch(c) THEN 1 ELSE 0
           /\ \A i \in BatchesOf(c) : Count(c, submitted[i].cases) = 1
    /\ \A c \in Ids : ~compute[c] => (~InSeq(c, ran) /\ BatchesOf(c) = {})
    /\ \A i \in ComputeBatches : submitted[i].cases # <<>>

\* the lines reported by the step of Studies.run that is being taken
NewLines == {log'[i] : i \in (Len(log) + 1)..Len(log')}

\* C31: with mem_log on, an exit code with the bit of value 2 is reported
\* as a leak and counts as the code less 2; with mem_log off no leak is
\* reported and the code counts as it is. The run is reported FAILED and
\* compare and plot of the case are cleared when the code that counts is not
\* 0, and left as they are when it is 0.
C31_LeakBitIsNotAFailure ==
    [][ \A case \in Ids :
          DirectRunOf(case) =>
            LET code == exit_code[case]
                leak == mem_log /\ (code % 4) >= 2
                rest == IF leak THEN code - 2 ELSE code
                line(st) == [case |-> case, step |-> "run", status |-> st]
            IN  /\ line("Leaks in memory logs") \in NewLines <=> leak
                /\ line("FAILED") \in NewLines <=> rest # 0
                /\ line("OK") \in NewLines <=> rest = 0
                /\ rest # 0 => (~compare'[case] /\ ~plot'[case])
                /\ rest = 0 => (compare'[case] = compare[case]
                                /\ plot'[case] = plot[case]) ]_vars

\* with mem_log on a case that returned 2 kept compare and plot and its
\* leak was reported, a case that returned 3 lost them
C31_Witness ==
    /\ pc = "done"
    /\ mem_log
    /\ \E c, d \in SeqSet(ran) :
         /\ exit_code[c] = 2 /\ compare[c] /\ plot[c]
         /\ [case |-> c, step |-> "run", status |-> "Leaks in memory logs"]
              \in SeqSet(log)
         /\ [case |-> c, step |-> "run", status |-> "OK"] \in SeqSet(log)
         /\ exit_code[d] = 3 /\ ~compare[d] /\ ~plot[d]
         /\ [case |-> d, step |-> "run", status |-> "FAILED"] \in SeqSet(log)

\* with mem_log off a case that returned 2 lost compare and plot
C31_WitnessOff ==
    /\ pc = "done"
    /\ ~mem_log
    /\ smgr_cmd.compare
    /\ \E c \in SeqSet(ran) : exit_code[c] = 2 /\ ~compare[c]

\* the statuses reported for the preparation of the run folder of c
PrepareStatus(c) ==
    {l.status : l \in {x \in SeqSet(log) :
                         x.case = c /\ x.step = "prepare run folder"}}

GivesTime(c, name) ==
    /\ name \in DOMAIN run_conf[c].sections
    /\ run_conf[c].sections[name].expected_time # NoStr

\* expected_time is to be taken from the configuration and run.cfg exists
TimeFromRunConf(c) ==
    /\ Constructed(c)
    /\ cases[c].data_expected_time = NoValue
    /\ run_conf[c].file

CheckFails(c) ==
    LET cn == compare_nodes[c]
    IN  \E i \in 1..Len(cn.markups) :
          /\ cn.markups[i].status
          /\ \/ /\ cn.markups[i].has_repo
                /\ check_dir(cn.repo_dir, cn.markups[i].repo, cn.run_id).msg
             \/ /\ cn.markups[i].has_dest
                /\ check_dir(cn.dest_dir, cn.markups[i].dest, cn.run_id).msg

\* C34: check_compare turns compare off and reports COMPARISON DISABLED for
\* the cases of the graph with compare on and a check of the repository or
\* of the destination that fails, and leaves compare of every other case as
\* it is.
C34_FailedCheckDisablesCompare ==
    [][ (pc = "create_studies" /\ pc' = "compared") =>
          \A c \in Ids :
            LET disabled == [case |-> c, step |-> "check compare",
                             status |-> "COMPARISON DISABLED"] \in NewLines
            IN  IF InSeq(c, nodes(graph)) /\ compare[c] /\ CheckFails(c)
                THEN ~compare'[c] /\ disabled
                ELSE compare'[c] = compare[c] /\ ~disabled ]_vars

\* the case that has the composite key k
KeyOwner(k) == CHOOSE c \in Ids : cases[c].key = k

\* number of dependencies from case c down to a case without depends, -1
\* when more than fuel dependencies are followed
RECURSIVE ChainDepth(_, _)
ChainDepth(c, fuel) ==
    IF cases[c].depends = NoKey THEN 0
    ELSE IF fuel = 0 THEN 0 - 1
    ELSE LET d == ChainDepth(KeyOwner(cases[c].depends), fuel - 1)
         IN  IF d < 0 THEN d ELSE d + 1

\* the cases have pairwise distinct keys and each depends is the key of
\* another case, without cycle
DependenciesAmongCases ==
    /\ \A c, d \in Ids : cases[c].key = cases[d].key => c = d
    /\ \A c \in Ids :
         cases[c].depends # NoKey =>
           /\ cases[c].depends # cases[c].key
           /\ \E d \in Ids : cases[d].key = cases[c].depends
    /\ \A c \in Ids : ChainDepth(c, Len(cases)) >= 0

\* the graph and the levels after add_node of the cases order[i], order[i+1],
\* ... on graph g with levels lv; err when add_node raised
RECURSIVE add_nodes(_, _, _, _)
add_nodes(order, i, g, lv) ==
    IF i > Len(order)
    THEN [g |-> g, level |-> lv, err |-> FALSE]
    ELSE LET r == add_node(g, lv, order[i])
         IN  IF r.err
             THEN [g |-> r.g, level |-> r.level, err |-> TRUE]
             ELSE add_nodes(order, i + 1, r.g, r.level)

\* the levels, edges and max_level that add_node calls in the order given
\* build from fresh cases are the depths and parents of the cases
BuildsDepths(order) ==
    LET b == add_nodes(order, 1, NewGraph, [c \in Ids |-> NoLevel])
    IN  /\ ~b.err
        /\ \A c \in Ids :
             /\ b.level[c] = ChainDepth(c, Len(cases))
             /\ b.g.dep[c] = IF cases[c].depends = NoKey THEN NoNode
                             ELSE KeyOwner(cases[c].depends)
        /\ b.g.max_level = SetMax({ChainDepth(c, Len(cases)) : c \in Ids})

\* C35: for cases with dependencies among them, add_node calls in any order
\* give every case its depth in the dependency chain as level, the same
\* edges and the same max_level.
C35_OrderIndependentLevels ==
    (pc = "dump_graph" /\ next_case = Len(cases) /\ DependenciesAmongCases) =>
      \A perm \in Permutations(Ids) :
        BuildsDepths([i \in 1..Len(cases) |-> perm[i]])

\* place of node c in the insertion order of graph g
node_index(g, c) == CHOOSE i \in 1..Len(g.nodes) : g.nodes[i] = c

\* the node reached from c by following n edges of graph g, NoNode when
\* there are fewer than n
RECURSIVE follow(_, _, _)
follow(g, c, n) ==
    IF n = 0 THEN c
    ELSE IF g.dep[c] = NoNode THEN NoNode
    ELSE follow(g, g.dep[c], n - 1)

\* the edges and levels of the global graph are well founded
EdgesWellFounded ==
    \A c \in SeqSet(nodes(global_graph)) :
      LET parent == global_graph.dep[c]
      IN  /\ parent # NoNode =>
               /\ InSeq(parent, nodes(global_graph))
               /\ node_index(global_graph, parent) < node_index(global_graph, c)
               /\ cases[parent].key = cases[c].depends
               /\ level[c] = level[parent] + 1
          /\ parent = NoNode => level[c] = 0
          /\ level[c] # NoLevel
          /\ follow(global_graph, c, level[c]) # NoNode
          /\ level[follow(global_graph, c, level[c])] = 0
          /\ global_graph.dep[follow(global_graph, c, level[c])] = NoNode

\* C36: after any sequence of add_node calls on fresh cases every edge leads
\* to a node inserted earlier whose key is the depends of the case and whose
\* level is one less, a node without edge has level 0, and following the
\* edges from a node reaches a level 0 node in level(node) steps.
C36_EdgesWellFounded ==
    pc = "dump_graph" => EdgesWellFounded

\* C37: every add_node call of dump_graph, also one of a case whose depends
\* is its own composite key, returns normally, leaves the case with a level
\* that is a non-negative integer and records no edge from the case to
\* itself.
C37_NoSelfEdgeAndLevelSet ==
    [][ LET case == next_case + 1
        IN  ( /\ pc = "dump_graph"
              /\ error = ""
              /\ next_case < Len(cases)
              /\ next_case' = case
              /\ InSeq(case, nodes(global_graph')) )
            => ( /\ error' = ""
                 /\ level'[case] \in Nat
                 /\ global_graph'.dep[case] # case ) ]_vars

\* the graph of dump_graph is built from the cases constructed
GraphOfCases ==
    /\ pc # "construct"
    /\ error = ""
    /\ next_case = Len(cases)

\* C38: with --rm, when case A is recomputed and the restart path of a
\* case B listed after A names the run of A, B depends on A and its level
\* is the level of A plus one, whatever the state of the earlier run folder
\* of A (FINALIZED included) when B was constructed.
C38_RestartKeptWithRm ==
    \A A, B \in Ids :
      ( /\ GraphOfCases
        /\ force_rm
        /\ \A c, d \in Ids : cases[c].key = cases[d].key => c = d
        /\ A < B
        /\ inferred[A] = NoKey
        /\ inferred[B] = cases[A].key
        /\ InSeq(A, nodes(global_graph)) )
      => ( /\ cases[B].depends = cases[A].key
           /\ InSeq(B, nodes(global_graph))
           /\ global_graph.dep[B] = A
           /\ level[B] = level[A] + 1 )

\* places in the log of the lines of the given step about the runs of the
\* case (study/label) name
LinesOf(step, name) ==
    {i \in 1..Len(log) : /\ log[i].step = step
                         /\ case_name(cases[log[i].case].key) = name}

\* C39: create_studies removes the RESU folder of a case (study/label) only
\* with --rm, at most once and before it prepares the first run folder of
\* that case, so that every run folder it has prepared is there when it
\* returns.
C39_CleanedOnceBeforeStaging ==
    (pc = "run_slurm" /\ error = "") =>
      /\ \A name \in {case_name(cases[c].key) : c \in Ids} :
           /\ Cardinality(LinesOf("clean RESU folder", name)) <= 1
           /\ LinesOf("clean RESU folder", name) # {} => force_rm
           /\ \A i \in LinesOf("clean RESU folder", name) :
                \A j \in LinesOf("prepare run folder", name) : i < j
      /\ \A c \in SeqSet(nodes(graph)) :
           staging(c).retval = 0 => dest_resu[cases[c].key] = "PREPARED"

\* with --rm two runs of one case were prepared after its RESU folder, which
\* held an earlier run, was removed
C39_Witness ==
    /\ pc = "run_slurm"
    /\ error = ""
    /\ force_rm
    /\ \E c, d \in SeqSet(nodes(graph)) :
         /\ c < d
         /\ cases[c].key # cases[d].key
         /\ case_name(cases[c].key) = case_name(cases[d].key)
         /\ staging(c).retval = 0
         /\ staging(d).retval = 0
         /\ dest_resu[cases[c].key] = "PREPARED"
         /\ dest_resu[cases[d].key] = "PREPARED"
         /\ LinesOf("clean RESU folder", case_name(cases[c].key)) # {}

\* CaseInit constructs the case
Constructs(case) ==
    /\ pc = "construct"
    /\ error = ""
    /\ built < Len(cases)
    /\ case = built + 1
    /\ built' = case

\* every restart tag of the parametric arguments of the case is followed by
\* a word, and there is one
HasRestart(case) ==
    LET list_param == parametric[case]
    IN  /\ InSeq("-r", list_param) \/ InSeq("--restart", list_param)
        /\ \A i \in 1..Len(list_param) :
             list_param[i] \in {"-r", "--restart"} => i < Len(list_param)

\* the run named by the restart of the parametric arguments, --restart
\* before -r
ParametricRestart(case) ==
    LET list_param == parametric[case]
        tag == IF InSeq("--restart", list_param) THEN "--restart" ELSE "-r"
    IN  run_path(case, list_param[index(list_param, tag) + 1])

\* C40: the construction of a case with a dependency given in the file
\* keeps this dependency and the flags of the command selection, with
\* no_restart off, whatever the restart path, the parametric arguments and
\* the state of the run folder; for a case without one, the restart of the
\* parametric arguments replaces the restart path of setup.xml.
C40_DeclaredDependsUntouched ==
    [][ \A case \in Ids :
          Constructs(case) =>
            /\ cases[case].data_depends # NoKey =>
                 /\ error' = ""
                 /\ cases'[case].depends = cases[case].data_depends
                 /\ no_restart'[case] = FALSE
                 /\ compute'[case] = smgr_cmd.compute
                 /\ compare'[case] = smgr_cmd.compare
                 /\ plot'[case] = smgr_cmd.post
            /\ (cases[case].data_depends = NoKey /\ HasRestart(case)) =>
                 /\ error' = ""
                 /\ cases'[case].depends
                      = IF dep_dir[case] = "FINALIZED" THEN NoKey
                        ELSE ParametricRestart(case)
                 /\ no_restart'[case]
                      = (dep_dir[case] \notin {"absent", "FINALIZED"}) ]_vars

\* a case with a dependency given in the file, another restart path,
\* another restart in its parametric arguments and a failed run folder is
\* constructed with this dependency and its flags on
C40_Witness ==
    /\ built = Len(cases)
    /\ error = ""
    /\ \E c \in Ids :
         /\ HasRestart(c)
         /\ inferred[c] \notin {NoKey, ParametricRestart(c)}
         /\ cases[c].data_depends \notin {NoKey, inferred[c], ParametricRestart(c)}
         /\ cases[c].depends = cases[c].data_depends
         /\ dep_dir[c] = "FAILED"
         /\ compute[c] /\ compare[c] /\ plot[c] /\ ~no_restart[c]

====
